---- MODULE Spec2Model ----
(***************************************************************************)
(* yangify: schema-directed translation (yangify/translator) and parsing   *)
(* (yangify/parser) of configuration data.                                 *)
(*                                                                         *)
(* Representation of the yangson values the engines consume:               *)
(*   - a leaf value is a string;                                           *)
(*   - a leaf-list value is a sequence of strings;                         *)
(*   - an object (container or list entry) is a function from member names *)
(*     to values, a member that is absent is not in its domain;            *)
(*   - a list value is a sequence of objects;                              *)
(*   - Python's Optional is a sequence of length 0 (None) or 1.            *)
(* All leaves of the data model used here are of type string, for which    *)
(* yangson's raw and cooked values coincide.                               *)
(***************************************************************************)
EXTENDS Integers, Sequences, FiniteSets, TLC

VARIABLES
    dm,          \* Translator.dm / Parser schema: data path -> schema node
    candidate,   \* TranslatorData.candidate: root instance
    running,     \* TranslatorData.running: None or root instance
    replace,     \* TranslatorData.replace
    pc,          \* position of RootTranslator.process / RootParser.process
    stack,       \* call stack of _process_container / _process_list
    heap,        \* the dict objects bound to yy.keys, by reference
    log,         \* hook and accessor invocations, in order
    step,        \* the engine method executed last, and its argument
    native,      \* ParserData.root_native: the native data given to RootParser
    config,      \* RootParser.config
    state,       \* RootParser.state
    model_filter,\* Parser.model_filter
    parsed,      \* the value RootParser.process hands to dm.from_raw
    lines        \* the list config of parse_indented_config, consumed in place

\* the fields of the root translator and those of the root parser
tvars == <<candidate, running, replace>>
pvars == <<native, config, state, model_filter, parsed>>

vars == <<dm, candidate, running, replace, pc, stack, heap, log, step,
          native, config, state, model_filter, parsed, lines>>

----------------------------------------------------------------------------
(* Bounds of the inputs *)

MaxLeafList == 2     \* longest leaf-list drawn
MaxElems == 2        \* most entries of the list "element" drawn

LeafVals == {"a", "b"}
Atoms == {"a", "b", "c"}
Keys == {"1", "2"}

None == <<>>
Some(v) == <<v>>

Last(s) == s[Len(s)]
Front(s) == SubSeq(s, 1, Len(s) - 1)
Range(s) == {s[i] : i \in 1..Len(s)}

\* sequences over S of length at most n without repeated values
UniqueSeqs(S, n) ==
    {s \in UNION {[1..k -> S] : k \in 0..n} :
        \A i, j \in 1..Len(s) : i # j => s[i] # s[j]}

----------------------------------------------------------------------------
(* The data model (yangson schema) *)

\* yangson DataNode.data_path() of the nodes of the model
RootPath == "/"
StartPath == "/start"
DescrPath == "/start/descr"
MembersPath == "/start/members"
TagsPath == "/start/tags"
ElementPath == "/start/element"
NamePath == "/start/element/name"
ValuePath == "/start/element/value"
SubPath == "/start/element/sub"
IdPath == "/start/element/sub/id"

\* config: DataNode.config, TRUE for configuration and FALSE for state data
\* extract: the Yangify class of the node's parser overrides extract_elements
SchemaNode(name, kind, parent, children, keys, impl) ==
    [name |-> name, kind |-> kind, parent |-> parent, children |-> children,
     keys |-> keys, impl |-> impl, config |-> TRUE, extract |-> TRUE]

\* container start { leaf descr; leaf-list members; leaf-list tags;
\*   list element { key name; leaf name; leaf value;
\*     list sub { key id; leaf id; } } }
\* impl: the Translator class tree has a member for the node
\* (tests/unit/test_translator.py, class start / elements / element).
TestModel ==
    (RootPath :> SchemaNode("", "container", "", <<StartPath>>, <<>>, TRUE))
 @@ (StartPath :> SchemaNode("start", "container", RootPath,
        <<DescrPath, MembersPath, TagsPath, ElementPath>>, <<>>, TRUE))
 @@ (DescrPath :> SchemaNode("descr", "leaf", StartPath, <<>>, <<>>, TRUE))
 @@ (MembersPath :> SchemaNode("members", "leaf-list", StartPath, <<>>, <<>>, TRUE))
 @@ (TagsPath :> SchemaNode("tags", "leaf-list", StartPath, <<>>, <<>>, TRUE))
 @@ (ElementPath :> SchemaNode("element", "list", StartPath,
        <<NamePath, ValuePath, SubPath>>, <<"name">>, TRUE))
 @@ (NamePath :> SchemaNode("name", "leaf", ElementPath, <<>>, <<>>, TRUE))
 @@ (ValuePath :> SchemaNode("value", "leaf", ElementPath, <<>>, <<>>, TRUE))
 @@ (SubPath :> SchemaNode("sub", "list", ElementPath, <<IdPath>>, <<"id">>, TRUE))
 @@ (IdPath :> SchemaNode("id", "leaf", SubPath, <<>>, <<>>, TRUE))

ConfigPath == "/start/element/config"
ConfigNamePath == "/start/element/config/name"
ConfigDescrPath == "/start/element/config/descr"
StatePath == "/start/element/state"
CounterPath == "/start/element/state/counter"

\* a node of state data: config false
StateNode(node) == [node EXCEPT !.config = FALSE]

\* the model the parsers are run on: the list element has, as in
\* tests/unit/test_parser.py, a container config and a container state
\*   list element { key name; leaf name; leaf value;
\*     container config { leaf name; leaf descr; }
\*     container state { config false; leaf counter; }
\*     list sub { key id; leaf id; } }
ParserModel ==
    (ElementPath :> SchemaNode("element", "list", StartPath,
        <<NamePath, ValuePath, ConfigPath, StatePath, SubPath>>, <<"name">>, TRUE))
 @@ (ConfigPath :> SchemaNode("config", "container", ElementPath,
        <<ConfigNamePath, ConfigDescrPath>>, <<>>, TRUE))
 @@ (ConfigNamePath :> SchemaNode("name", "leaf", ConfigPath, <<>>, <<>>, TRUE))
 @@ (ConfigDescrPath :> SchemaNode("descr", "leaf", ConfigPath, <<>>, <<>>, TRUE))
 @@ (StatePath :> StateNode(SchemaNode("state", "container", ElementPath,
        <<CounterPath>>, <<>>, TRUE)))
 @@ (CounterPath :> StateNode(SchemaNode("counter", "leaf", StatePath, <<>>, <<>>, TRUE)))
 @@ TestModel

----------------------------------------------------------------------------
(* Instance trees and routes (yangson.instance) *)

\* instance.MemberName and instance.EntryKeys, the steps of an InstanceRoute
MemberName(name) == [m |-> name]
EntryKeys(key, value) == [k |-> key, v |-> value]

\* the first entry of the list value whose key leaf has the value, if any
LookUp(entries, sel) ==
    LET hits == {i \in 1..Len(entries) :
                    sel.k \in DOMAIN entries[i] /\ entries[i][sel.k] = sel.v}
    IN  IF hits = {} THEN None
        ELSE Some(entries[CHOOSE i \in hits : \A j \in hits : i <= j])

\* InstanceNode.goto(irt): None stands for NonexistentInstance
RECURSIVE Goto(_, _)
Goto(inst, irt) ==
    IF irt = <<>> THEN Some(inst)
    ELSE LET sel == irt[1]
             next == IF "m" \in DOMAIN sel
                     THEN IF sel.m \in DOMAIN inst THEN Some(inst[sel.m]) ELSE None
                     ELSE LookUp(inst, sel)
         IN  IF next = None THEN None ELSE Goto(next[1], Tail(irt))

----------------------------------------------------------------------------
(* yangify.translator.Translator: the diff predicates *)

\* running.goto(irt) of a translator whose running may be None
GotoRunning(irt) == IF running = None THEN None ELSE Goto(running[1], irt)

\* mutant: the instance nodes are compared, not their values
Mut_obj_changed_nodes(irt) ==
    GotoRunning(irt) # None \/ Goto(candidate, irt) # None

\* mutant: without a running tree nothing counts as changed
Mut_obj_changed_running(irt) ==
    running # None /\ GotoRunning(irt) # Goto(candidate, irt)

_obj_changed(irt) ==
    LET r == GotoRunning(irt)
        c == Goto(candidate, irt)
    IN  r # c

_present_in_candidate(irt) == Goto(candidate, irt) # None

_present_in_running(irt) ==
    IF running # None THEN Goto(running[1], irt) # None ELSE FALSE

_obj_remove_running(irt) ==
    IF running = None THEN FALSE
    ELSE IF Goto(running[1], irt) = None THEN FALSE
    ELSE IF Goto(candidate, irt) = None THEN TRUE
    ELSE FALSE

\* mutant: a leaf removed from running is not visited when merging
Mut_forward_progress_leaf_merge(path) ==
    IF replace
    THEN (IF _present_in_candidate(path) THEN TRUE ELSE FALSE)
    ELSE _obj_changed(path) /\ ~_obj_remove_running(path)

\* mutant: when replacing, a leaf of running is visited like one of candidate
Mut_forward_progress_leaf_replace(path) ==
    IF replace
    THEN _present_in_candidate(path) \/ _present_in_running(path)
    ELSE _obj_changed(path) \/ _obj_remove_running(path)

_obj_forward_progress_leaf(path) ==
    IF replace
    THEN (IF _present_in_candidate(path) THEN TRUE ELSE FALSE)
    ELSE _obj_changed(path) \/ _obj_remove_running(path)

\* mutant: a subtree that exists only in running is not visited
Mut_forward_progress_container(path) == _present_in_candidate(path)

_obj_forward_progress_container(path) ==
    _present_in_candidate(path) \/ _present_in_running(path)

\* candidate.goto(irt).value, None when the instance does not exist
_get_inst_value(irt) == Goto(candidate, irt)

_append_node_to_path(irt, schema_node) ==
    Append(irt, MemberName(dm[schema_node].name))

\* the route of a list entry: the base path and the entry's first key
_append_child_path(base_path, list_node, inst) ==
    LET key == dm[list_node].keys[1]
    IN  Append(base_path, EntryKeys(key, inst[key]))

_extract_key(list_node, element) == element[dm[list_node].keys[1]]

\* mutant: nothing is removed when candidate lacks the list
Mut_fill_to_remove(yy, cand, run) ==
    IF running # None
    THEN SelectSeq(run, LAMBDA element :
            /\ cand # None
            /\ Goto(candidate, _append_child_path(yy.path, yy.schema, element)) = None)
    ELSE <<>>

\* to_remove: the running entries whose route is not found in candidate
_fill_to_remove(yy, cand, run) ==
    IF running # None
    THEN SelectSeq(run, LAMBDA element :
            IF cand # None
            THEN Goto(candidate, _append_child_path(yy.path, yy.schema, element)) = None
            ELSE TRUE)
    ELSE <<>>

\* mutant: the difference candidate - running
Mut_fill_to_remove_values(cand, run) ==
    LET this == IF run # None THEN run[1] ELSE <<>>
        other == IF cand # None THEN cand[1] ELSE <<>>
    IN  SelectSeq(other, LAMBDA i : i \notin Range(this))

\* values_to_remove: [i for i in this if i not in other]
_fill_to_remove_values(cand, run) ==
    LET this == IF run # None THEN run[1] ELSE <<>>
        other == IF cand # None THEN cand[1] ELSE <<>>
    IN  SelectSeq(this, LAMBDA i : i \notin Range(other))

----------------------------------------------------------------------------
(* Translator objects, hooks and the log of their invocations *)

\* TranslatorData.__init__: the fields of a translator's yy
TranslatorData(schema, path, keys, result) ==
    [schema |-> schema, path |-> path, keys |-> keys, result |-> result,
     to_remove |-> <<>>, values_to_remove |-> <<>>]

\* a stack frame of _process_container (fn = "container", i the child being
\* looked at) or of _process_list (fn = "list", i the element looked at)
Frame(fn, yy, elements, running_keys) ==
    [fn |-> fn, yy |-> yy, i |-> 1, elements |-> elements,
     running_keys |-> running_keys]

\* one invocation of a hook of yy, or of an accessor, with what it can see
Event(op, node, path, yy, h, arg) ==
    [op |-> op, node |-> node, path |-> path, keys |-> h[yy.keys],
     result |-> yy.result, to_remove |-> yy.to_remove,
     values_to_remove |-> yy.values_to_remove, arg |-> arg]

DictSet(d, k, v) == (k :> v) @@ d

\* TranslatorData.key: the key of the nearest enclosing list
RECURSIVE NearestList(_)
NearestList(node) ==
    IF dm[node].kind = "list" THEN node ELSE NearestList(dm[node].parent)

key(yy, h) == h[yy.keys][NearestList(yy.schema)]

\* pre_process as the handlers of list entries implement it: an entry is
\* added to self.keys in place and self.result is rebound to a new section
pre_process(yy, h) ==
    IF dm[yy.schema].kind = "list"
    THEN [yy |-> [yy EXCEPT !.result = Append(@, key(yy, h))],
          heap |-> [h EXCEPT ![yy.keys] = DictSet(@, "user", key(yy, h))]]
    ELSE [yy |-> yy, heap |-> h]

\* copy.deepcopy(d): a new dict object with the contents of h[ref]
deepcopy(h, ref) == [heap |-> Append(h, h[ref]), ref |-> Len(h) + 1]

\* Translator._get_child: the child translator shares keys and result
_get_child(yy, child) ==
    TranslatorData(child, _append_node_to_path(yy.path, child), yy.keys, yy.result)

----------------------------------------------------------------------------
(* Translator._process_leaf and _process_leaf_list *)

\* the value handed to the accessor of a leaf
LeafArg(leaf_path) ==
    IF _obj_remove_running(leaf_path) THEN None ELSE _get_inst_value(leaf_path)

\* the events of _process_leaf(leaf) run by the translator yy
ProcessLeafEvents(yy, h, leaf) ==
    LET leaf_path == _append_node_to_path(yy.path, leaf)
    IN  IF ~_obj_forward_progress_leaf(leaf_path) THEN <<>>
        ELSE IF ~dm[leaf].impl THEN <<>>
        ELSE <<Event("leaf", leaf, leaf_path, yy, h, LeafArg(leaf_path))>>

\* mutant: when merging the accessor gets the full candidate sequence
Mut_LeafListArg(leaf_path, run) ==
    IF _obj_remove_running(leaf_path) THEN None
    ELSE _get_inst_value(leaf_path)

\* the value handed to the accessor of a leaf-list; run is running's node
\* or None where the code has []
LeafListArg(leaf_path, run) ==
    IF _obj_remove_running(leaf_path) THEN None
    ELSE IF ~replace
    THEN LET elements == IF run # None THEN run[1] ELSE <<>>
             value == _get_inst_value(leaf_path)
         IN  Some(SelectSeq(value[1], LAMBDA i : i \notin Range(elements)))
    ELSE _get_inst_value(leaf_path)

\* values_to_remove after _process_leaf_list(leaf_list) run by yy
LeafListValuesToRemove(yy, leaf_list) ==
    LET leaf_path == _append_node_to_path(yy.path, leaf_list)
    IN  IF ~_obj_forward_progress_leaf(leaf_path) THEN yy.values_to_remove
        ELSE _fill_to_remove_values(Goto(candidate, leaf_path),
                                    GotoRunning(leaf_path))

\* the events of _process_leaf_list(leaf_list) run by the translator yy
ProcessLeafListEvents(yy, h, leaf_list) ==
    LET leaf_path == _append_node_to_path(yy.path, leaf_list)
        yy1 == [yy EXCEPT !.values_to_remove = LeafListValuesToRemove(yy, leaf_list)]
        pre == Event("pre_process_leaf_list", leaf_list, leaf_path, yy1, h, None)
    IN  IF ~_obj_forward_progress_leaf(leaf_path) THEN <<>>
        ELSE IF ~dm[leaf_list].impl THEN <<pre>>
        ELSE <<pre,
               Event("leaf_list", leaf_list, leaf_path, yy1, h,
                     LeafListArg(leaf_path, GotoRunning(leaf_path))),
               Event("post_process_leaf_list", leaf_list, leaf_path, yy1, h, None)>>

----------------------------------------------------------------------------
(* Translator._process_container and _process_list *)

\* _process_container up to its loop: pre_process runs, then the frame of
\* the loop over the data children is pushed
_process_container_enter(yy, h, lg) ==
    LET r == pre_process(yy, h)
    IN  [frame |-> Frame("container", r.yy, <<>>, 0),
         heap |-> r.heap,
         log |-> Append(lg, Event("pre_process", yy.schema, yy.path, yy, h, None))]

\* _process_list that runs pre_process_list before to_remove is filled
Mut_process_list_enter(yy, h, lg) ==
    LET elements == Goto(candidate, yy.path)
        run == IF GotoRunning(yy.path) = None THEN <<>> ELSE GotoRunning(yy.path)[1]
        yy1 == [yy EXCEPT !.to_remove = _fill_to_remove(yy, elements, run)]
        snap == deepcopy(h, yy1.keys)
    IN  [frame |-> Frame("list", yy1,
                         IF elements = None THEN <<>> ELSE elements[1], snap.ref),
         heap |-> snap.heap,
         log |-> Append(lg, Event("pre_process_list", yy.schema, yy.path, yy, h, None))]

\* _process_list up to its loop: to_remove is filled, pre_process_list runs,
\* the keys are saved
_process_list_enter(yy, h, lg) ==
    LET elements == Goto(candidate, yy.path)
        run == IF GotoRunning(yy.path) = None THEN <<>> ELSE GotoRunning(yy.path)[1]
        yy1 == [yy EXCEPT !.to_remove = _fill_to_remove(yy, elements, run)]
        snap == deepcopy(h, yy1.keys)
    IN  [frame |-> Frame("list", yy1,
                         IF elements = None THEN <<>> ELSE elements[1], snap.ref),
         heap |-> snap.heap,
         log |-> Append(lg, Event("pre_process_list", yy.schema, yy.path, yy1, h, None))]

\* mutant: the element loop goes on with the dict of the entry before
Mut_ElementKeys(yy, h, running_keys) == [heap |-> h, ref |-> yy.keys]

\* self.yy.keys = copy.deepcopy(running_keys) of the element loop
ElementKeys(yy, h, running_keys) == deepcopy(h, running_keys)

\* mutant: an unchanged entry is skipped when replacing too
Mut_ElementSkipped(element_path) == ~_obj_changed(element_path)

\* the element loop skips an entry that did not change, unless replacing
ElementSkipped(element_path) == ~_obj_changed(element_path) /\ ~replace

Top == Last(stack)
DataChildren(yy) == dm[yy.schema].children
InContainer == pc = "run" /\ stack # <<>> /\ Top.fn = "container"
InList == pc = "run" /\ stack # <<>> /\ Top.fn = "list"
Child == DataChildren(Top.yy)[Top.i]
Advance == [stack EXCEPT ![Len(stack)].i = @ + 1]
Step(fn, node, path, n) == [fn |-> fn, node |-> node, path |-> path, n |-> n]

\* RootTranslator.process: init, then _process_container of the root
process ==
    /\ pc = "start"
    /\ LET r == _process_container_enter(TranslatorData(RootPath, <<>>, 1, <<>>), heap, log)
       IN  /\ stack' = <<r.frame>>
           /\ heap' = r.heap
           /\ log' = r.log
    /\ pc' = "run"
    /\ step' = Step("process", RootPath, <<>>, 1)
    /\ UNCHANGED <<lines, pvars, dm, candidate, running, replace>>

_process_leaf ==
    /\ InContainer
    /\ Top.i <= Len(DataChildren(Top.yy))
    /\ dm[Child].kind = "leaf"
    /\ LET evs == ProcessLeafEvents(Top.yy, heap, Child)
       IN  /\ log' = log \o evs
           /\ step' = Step("_process_leaf", Child,
                           _append_node_to_path(Top.yy.path, Child), Len(evs))
    /\ stack' = Advance
    /\ UNCHANGED <<lines, pvars, dm, candidate, running, replace, pc, heap>>

_process_leaf_list ==
    /\ InContainer
    /\ Top.i <= Len(DataChildren(Top.yy))
    /\ dm[Child].kind = "leaf-list"
    /\ LET evs == ProcessLeafListEvents(Top.yy, heap, Child)
       IN  /\ log' = log \o evs
           /\ step' = Step("_process_leaf_list", Child,
                           _append_node_to_path(Top.yy.path, Child), Len(evs))
    /\ stack' = [Advance EXCEPT ![Len(stack)].yy.values_to_remove =
                                    LeafListValuesToRemove(Top.yy, Child)]
    /\ UNCHANGED <<lines, pvars, dm, candidate, running, replace, pc, heap>>

\* _process_container_node(node) for a container or list child: the child
\* translator is created and entered when the node can make progress
_process_container_node ==
    /\ InContainer
    /\ Top.i <= Len(DataChildren(Top.yy))
    /\ dm[Child].kind \in {"container", "list"}
    /\ LET node_path == _append_node_to_path(Top.yy.path, Child)
           attr == _get_child(Top.yy, Child)
           r == IF dm[Child].kind = "container"
                THEN _process_container_enter(attr, heap, log)
                ELSE _process_list_enter(attr, heap, log)
       IN  IF _obj_forward_progress_container(node_path) /\ dm[Child].impl
           THEN /\ stack' = Append(Advance, r.frame)
                /\ heap' = r.heap
                /\ log' = r.log
                /\ step' = Step("_process_container_node", Child, node_path, 1)
           ELSE /\ stack' = Advance
                /\ step' = Step("_process_container_node", Child, node_path, 0)
                /\ UNCHANGED <<heap, log>>
    /\ UNCHANGED <<lines, pvars, dm, candidate, running, replace, pc>>

\* one iteration of the element loop of _process_list
_process_list_element ==
    /\ InList
    /\ Top.i <= Len(Top.elements)
    /\ LET element == Top.elements[Top.i]
           element_path == _append_child_path(Top.yy.path, Top.yy.schema, element)
           c == ElementKeys(Top.yy, heap, Top.running_keys)
           h == [c.heap EXCEPT ![c.ref] =
                    DictSet(@, Top.yy.schema, _extract_key(Top.yy.schema, element))]
           r == _process_container_enter(
                    TranslatorData(Top.yy.schema, element_path, c.ref, Top.yy.result),
                    h, log)
       IN  IF ElementSkipped(element_path)
           THEN /\ stack' = Advance
                /\ step' = Step("_process_list_element", Top.yy.schema, element_path, 0)
                /\ UNCHANGED <<heap, log>>
           ELSE /\ stack' = Append([Advance EXCEPT ![Len(stack)].yy.keys = c.ref],
                                   r.frame)
                /\ heap' = r.heap
                /\ log' = r.log
                /\ step' = Step("_process_list_element", Top.yy.schema, element_path, 1)
    /\ UNCHANGED <<lines, pvars, dm, candidate, running, replace, pc>>

\* the end of _process_list: the keys are restored, post_process_list runs
_process_list_return ==
    /\ InList
    /\ Top.i > Len(Top.elements)
    /\ LET yy == [Top.yy EXCEPT !.keys = Top.running_keys]
       IN  log' = Append(log, Event("post_process_list", yy.schema, yy.path, yy, heap, None))
    /\ stack' = Front(stack)
    /\ step' = Step("_process_list_return", Top.yy.schema, Top.yy.path, 1)
    /\ UNCHANGED <<lines, pvars, dm, candidate, running, replace, pc, heap>>

\* the end of _process_container: post_process runs; the root translator
\* then runs post and process returns
_process_container_return ==
    /\ InContainer
    /\ Top.i > Len(DataChildren(Top.yy))
    /\ log' = Append(log, Event("post_process", Top.yy.schema, Top.yy.path, Top.yy, heap, None))
    /\ stack' = Front(stack)
    /\ pc' = IF Len(stack) = 1 THEN "done" ELSE pc
    /\ step' = Step("_process_container_return", Top.yy.schema, Top.yy.path, 1)
    /\ UNCHANGED <<lines, pvars, dm, candidate, running, replace, heap>>

----------------------------------------------------------------------------
(* The inputs of RootTranslator *)

OptMember(name, o) == IF o = None THEN <<>> ELSE (name :> o[1])
Opt(S) == {None} \cup {Some(v) : v \in S}

\* entries of /start/element/sub
SubEntries == <<("id" :> "x"), ("id" :> "y")>>

Element(k, v, s) == ("name" :> k) @@ ("value" :> v) @@ OptMember("sub", s)

ElementVariants == [v : LeafVals, s : {None, Some(SubEntries)}]

\* the values of /start/element: entries with distinct keys
ElementLists(n) ==
    UNION {{[i \in 1..Len(ks) |-> Element(ks[i], c[i].v, c[i].s)] :
                c \in [1..Len(ks) -> ElementVariants]} :
           ks \in UniqueSeqs(Keys, n)}

LeafDocs ==
    {OptMember("descr", d) @@ OptMember("members", m) @@ OptMember("tags", t) :
        d \in Opt(LeafVals), m \in Opt(UniqueSeqs(Atoms, MaxLeafList)),
        t \in {None, Some(<<"a">>)}}

ListDocs == {("element" :> es) : es \in ElementLists(MaxElems)}

\* the examples of the leaf-list and list reconciliation
ExampleDocs ==
    {("members" :> <<"a", "b", "c">>), ("members" :> <<"b", "c">>),
     ("element" :> <<Element("1", "a", None), Element("2", "a", None),
                     Element("3", "a", None)>>),
     ("element" :> <<Element("2", "b", None), Element("4", "a", None)>>)}

\* the raw trees given to RootTranslator: {}, {"start": {}}, ...
Trees == {<<>>} \cup {("start" :> s) : s \in {<<>>} \cup LeafDocs \cup ListDocs \cup ExampleDocs}

Init ==
    /\ dm = TestModel
    /\ candidate \in Trees
    /\ running \in Opt(Trees)
    /\ replace \in BOOLEAN
    /\ pc = "start"
    /\ stack = <<>>
    /\ heap = << <<>> >>
    /\ log = <<>>
    /\ step = Step("", RootPath, <<>>, 0)
    /\ native = <<>>
    /\ config = TRUE
    /\ state = FALSE
    /\ model_filter = [include |-> <<>>, exclude |-> <<>>]
    /\ parsed = None
    /\ lines = <<>>

Next ==
    \/ process
    \/ _process_leaf
    \/ _process_leaf_list
    \/ _process_container_node
    \/ _process_list_element
    \/ _process_list_return
    \/ _process_container_return

Spec == Init /\ [][Next]_vars

----------------------------------------------------------------------------
(* Vocabulary of the properties *)

\* the events of the method executed last, in order
LastEvents == SubSeq(log, Len(log) - step.n + 1, Len(log))
AccessorCalls(evs) == SelectSeq(evs, LAMBDA e : e.op \in {"leaf", "leaf_list"})

\* the node's instance in candidate / in running, None when it is missing
\* or when there is no running tree
InCandidate(path) == Goto(candidate, path)
InRunning(path) == IF running = None THEN None ELSE Goto(running[1], path)
RemovedFromRunning(path) == InRunning(path) # None /\ InCandidate(path) = None

\* the entries of a list, none when the list is missing
Entries(o) == IF o = None THEN <<>> ELSE o[1]
\* the values of all the key leaves the list declares
FullKey(list_node, entry) ==
    [i \in 1..Len(dm[list_node].keys) |-> entry[dm[list_node].keys[i]]]
FullKeys(list_node, entries) ==
    {FullKey(list_node, entries[i]) : i \in 1..Len(entries)}
\* s without the values that occur in t, in the order of s
OrderedDiff(s, t) == SelectSeq(s, LAMBDA x : \A j \in 1..Len(t) : t[j] # x)

----------------------------------------------------------------------------
(* C1 *)

\* C1: merge mode: the accessor of an implemented leaf is invoked iff the
\* leaf's candidate value differs from its running value or the leaf is in
\* running and not in candidate; it receives null iff the leaf is in running
\* and not in candidate, and the candidate value otherwise.
C1_MergeLeaf ==
    (step.fn = "_process_leaf" /\ ~replace /\ dm[step.node].impl) =>
        /\ (step.n = 1) <=>
              (InCandidate(step.path) # InRunning(step.path)
                \/ RemovedFromRunning(step.path))
        /\ step.n = 1 =>
              /\ Last(log).op = "leaf" /\ Last(log).path = step.path
              /\ (Last(log).arg = None) <=> RemovedFromRunning(step.path)
              /\ ~RemovedFromRunning(step.path) =>
                    Last(log).arg = InCandidate(step.path)

\* a leaf removed from running reaches its accessor as null
C1_Witness ==
    /\ step.fn = "_process_leaf" /\ ~replace /\ step.n = 1
    /\ RemovedFromRunning(step.path)
    /\ Last(log).arg = None

----------------------------------------------------------------------------
(* C2 *)

\* C2: replace mode: the accessor of a leaf or leaf-list is invoked iff the
\* node is present in candidate, with the candidate's value; no accessor is
\* ever invoked for a node that is absent from candidate.
C2_ReplaceLeaf ==
    replace =>
        /\ (step.fn \in {"_process_leaf", "_process_leaf_list"} /\ dm[step.node].impl) =>
              LET calls == AccessorCalls(LastEvents)
              IN  /\ (Len(calls) = 1) <=> (InCandidate(step.path) # None)
                  /\ Len(calls) <= 1
        /\ \A i \in 1..Len(log) :
              log[i].op \in {"leaf", "leaf_list"} =>
                  /\ InCandidate(log[i].path) # None
                  /\ log[i].arg = InCandidate(log[i].path)

\* a node of running that candidate lacks is passed over, a node of
\* candidate that equals running's is still handed to its accessor
C2_Witness ==
    /\ replace /\ pc = "done"
    /\ \E i \in 1..Len(log) :
          /\ log[i].op = "leaf_list"
          /\ InRunning(log[i].path) = InCandidate(log[i].path)
    /\ RemovedFromRunning(<<MemberName("start"), MemberName("descr")>>)

----------------------------------------------------------------------------
(* C3 *)

\* the running entries of the list at path whose key no entry of candidate
\* has, in running's order
RunningOnly(list_node, path) ==
    SelectSeq(Entries(InRunning(path)),
              LAMBDA e : FullKey(list_node, e) \notin
                            FullKeys(list_node, Entries(InCandidate(path))))

\* C3: in both modes, when pre_process_list runs for a list, to_remove holds
\* exactly the running entries of that list whose key has no entry in
\* candidate, in running's order; it is empty without a running tree and
\* holds every running entry when candidate lacks the list.
C3_ToRemove ==
    \A i \in 1..Len(log) :
        log[i].op = "pre_process_list" =>
            /\ log[i].to_remove = RunningOnly(log[i].node, log[i].path)
            /\ running = None => log[i].to_remove = <<>>
            /\ InCandidate(log[i].path) = None =>
                  log[i].to_remove = Entries(InRunning(log[i].path))

\* running keys 1, 2, 3 and candidate keys 2, 4: the entries 1 and 3
C3_Witness ==
    /\ log # <<>>
    /\ Last(log).op = "pre_process_list"
    /\ Last(log).node = ElementPath
    /\ [i \in 1..Len(Entries(InRunning(Last(log).path))) |->
            Entries(InRunning(Last(log).path))[i].name] = <<"1", "2", "3">>
    /\ [i \in 1..Len(Entries(InCandidate(Last(log).path))) |->
            Entries(InCandidate(Last(log).path))[i].name] = <<"2", "4">>
    /\ [i \in 1..Len(Last(log).to_remove) |-> Last(log).to_remove[i].name] = <<"1", "3">>

----------------------------------------------------------------------------
(* C4 *)

\* the events of the entries the engine recursed into for the list at path
Recursed(list_node, path) ==
    SelectSeq(log, LAMBDA e : /\ e.op = "pre_process" /\ e.node = list_node
                              /\ e.path # <<>> /\ Front(e.path) = path)
\* the entry of the list that the route of a recursion selects
RecursedKeys(list_node, path) ==
    [i \in 1..Len(Recursed(list_node, path)) |-> Last(Recursed(list_node, path)[i].path).v]

\* the candidate entries that are new or changed: no running entry equals them
NewOrChanged(path) ==
    SelectSeq(Entries(InCandidate(path)),
              LAMBDA e : \A j \in 1..Len(Entries(InRunning(path))) :
                            Entries(InRunning(path))[j] # e)

\* C4: when a list has been processed, the engine has recursed into
\* candidate entries only, in candidate order: when merging into exactly the
\* new or changed ones, when replacing into every one; no entry is both in
\* to_remove and recursed into.
C4_Recursion ==
    step.fn = "_process_list_return" =>
        LET expected == IF replace THEN Entries(InCandidate(step.path))
                        ELSE NewOrChanged(step.path)
            keyleaf == dm[step.node].keys[1]
        IN  /\ RecursedKeys(step.node, step.path) =
                  [i \in 1..Len(expected) |-> expected[i][keyleaf]]
            /\ \A i \in 1..Len(Last(log).to_remove) :
                  Last(log).to_remove[i][keyleaf] \notin
                      Range(RecursedKeys(step.node, step.path))

\* merging: one entry was skipped as unchanged, another was recursed into,
\* and a running entry was left to to_remove
C4_Witness ==
    /\ step.fn = "_process_list_return" /\ ~replace
    /\ Len(RecursedKeys(step.node, step.path)) = 1
    /\ Len(Entries(InCandidate(step.path))) = 2
    /\ Last(log).to_remove # <<>>

----------------------------------------------------------------------------
(* C5 *)

----------------------------------------------------------------------------
(* C6 *)

----------------------------------------------------------------------------
(* C7 *)

\* C7: translating a candidate in merge mode against a running tree equal to
\* it invokes no leaf and no leaf-list accessor, recurses into no list entry,
\* and every to_remove seen by pre_process_list is empty.
C7_Idempotence ==
    (~replace /\ running = Some(candidate)) =>
        \A i \in 1..Len(log) :
            /\ log[i].op \notin {"leaf", "leaf_list", "pre_process_leaf_list"}
            /\ ~(log[i].op = "pre_process" /\ dm[log[i].node].kind = "list")
            /\ log[i].op = "pre_process_list" => log[i].to_remove = <<>>

\* the translation of a tree with leaves, a leaf-list and a list of two
\* entries against itself has completed
C7_Witness ==
    /\ ~replace /\ running = Some(candidate) /\ pc = "done"
    /\ \E i \in 1..Len(log) :
          /\ log[i].op = "pre_process_list"
          /\ Len(Entries(InCandidate(log[i].path))) = 2

----------------------------------------------------------------------------
(* C8 *)

\* C8: in both modes a container or list child with a handler is processed
\* (its hooks run) iff the node is present in candidate or in running.
C8_ContainerProgress ==
    /\ (step.fn = "_process_container_node" /\ dm[step.node].impl) =>
          /\ (step.n = 1) <=>
                (InCandidate(step.path) # None \/ InRunning(step.path) # None)
          /\ step.n = 1 =>
                /\ Last(log).op = IF dm[step.node].kind = "list"
                                  THEN "pre_process_list" ELSE "pre_process"
                /\ Last(log).path = step.path
    /\ \A i \in 1..Len(log) :
          (log[i].op \in {"pre_process", "pre_process_list"} /\ log[i].path # <<>>) =>
              (InCandidate(log[i].path) # None \/ InRunning(log[i].path) # None)

\* a container that exists only in running is processed
C8_Witness ==
    /\ step.fn = "_process_container_node" /\ step.n = 1
    /\ dm[step.node].kind = "container"
    /\ InCandidate(step.path) = None
    /\ Last(log).op = "pre_process"

----------------------------------------------------------------------------
(* C10 *)

\* the index of the event op at path that precedes the event i
Opening(i, op, path) ==
    CHOOSE j \in 1..(i - 1) : log[j].op = op /\ log[j].path = path

IsEntryEvent(e) == dm[e.node].kind = "list" /\ e.op \in {"pre_process", "post_process"}

\* C10: the translator of a list entry starts fresh, with keys equal to the
\* snapshot taken before the element loop plus keys[listPath] = the entry's
\* key and with the list handler's result; what a handler adds to keys or
\* rebinds as result during an entry is not seen by the next entry, by the
\* list's handler or by the parent; after the loop the list handler's keys
\* equal the snapshot.
C10_FreshTranslator ==
    \A i \in 1..Len(log) :
        /\ (log[i].op = "pre_process" /\ IsEntryEvent(log[i])) =>
              LET list == log[Opening(i, "pre_process_list", Front(log[i].path))]
              IN  /\ log[i].keys = DictSet(list.keys, log[i].node, Last(log[i].path).v)
                  /\ log[i].result = list.result
                  /\ log[i].to_remove = <<>> /\ log[i].values_to_remove = <<>>
        /\ log[i].op = "post_process_list" =>
              LET list == log[Opening(i, "pre_process_list", log[i].path)]
              IN  log[i].keys = list.keys /\ log[i].result = list.result
        /\ log[i].op = "post_process" =>
              LET pre == log[Opening(i, "pre_process", log[i].path)]
              IN  IF IsEntryEvent(log[i])
                  THEN /\ log[i].keys = DictSet(pre.keys, "user", Last(log[i].path).v)
                       /\ log[i].result = Append(pre.result, Last(log[i].path).v)
                  ELSE log[i].keys = pre.keys /\ log[i].result = pre.result

\* the second entry of a list is entered after the handler of the first
\* added an entry to keys and rebound result
C10_Witness ==
    /\ step.fn = "_process_list_element" /\ step.n = 1 /\ step.node = ElementPath
    /\ Len(Recursed(step.node, Front(step.path))) = 2
    /\ \E i \in 1..Len(log) :
          /\ log[i].op = "post_process" /\ IsEntryEvent(log[i])
          /\ "user" \in DOMAIN log[i].keys /\ log[i].result # <<>>
    /\ "user" \notin DOMAIN Last(log).keys
    /\ Last(log).result = <<>>

----------------------------------------------------------------------------
(* yangify.model_filter.ModelFilter *)

\* the text of a data path, taken segment by segment: "/" is <<>>,
\* "/start/element" is <<"start", "element">>
RECURSIVE PathText(_)
PathText(node) ==
    IF node = RootPath THEN <<>>
    ELSE Append(PathText(dm[node].parent), dm[node].name)

\* str.startswith
startswith(text, prefix) ==
    Len(prefix) <= Len(text) /\ SubSeq(text, 1, Len(prefix)) = prefix

\* ModelFilter.__init__: an empty include list becomes [""]
ModelFilter(include, exclude) ==
    [include |-> IF include = <<>> THEN << <<>> >> ELSE include, exclude |-> exclude]

\* _check_inc that looks one way only: the path below the include entry
Mut_check_inc(path, inc) == startswith(path, inc)

_check_inc(path, inc) == startswith(inc, path) \/ startswith(path, inc)

check(mf, path) ==
    /\ \E i \in 1..Len(mf.include) : _check_inc(path, mf.include[i])
    /\ path \notin Range(mf.exclude)

----------------------------------------------------------------------------
(* yangify.parser.Parser: objects, hooks and their log *)

\* ParserData.__init__: the fields of a parser's yy
ParserData(schema, nat, keys) == [schema |-> schema, native |-> nat, keys |-> keys]

\* a stack frame of Parser._process_container (fn = "container", i the child
\* looked at, keys the names of the inherited key leaves, result the dict
\* being filled) or of Parser._process_list (fn = "list", i the element in
\* progress, 0 before the first, result the list being filled)
ParserFrame(fn, yy, keys, elements, old_keys, old_native) ==
    [fn |-> fn, yy |-> yy, i |-> IF fn = "list" THEN 0 ELSE 1, result |-> <<>>,
     keys |-> keys, elements |-> elements, old_keys |-> old_keys,
     old_native |-> old_native]

\* the lists on the recursion path that have an element in progress, with
\* the key of that element as extract_elements gave it
CurrentKeys(stk) ==
    LET idx == {j \in 1..Len(stk) : stk[j].fn = "list" /\ stk[j].i >= 1}
    IN  [n \in {stk[j].yy.schema : j \in idx} |->
            LET j == CHOOSE j \in idx : stk[j].yy.schema = n
            IN  stk[j].elements[stk[j].i].key]

\* one invocation of a hook or accessor of the parser yy (ret: what an
\* accessor returned), or the return of _process_list
ParserEvent(op, node, yy, h, stk, ret) ==
    [op |-> op, node |-> node, keys |-> h[yy.keys], native |-> yy.native,
     lists |-> CurrentKeys(stk), ret |-> ret]

\* ParserData.key
Parser_key(yy, h) == h[yy.keys][NearestList(yy.schema)]

\* o.get(name, {}) of the native data
NativeGet(o, name) == IF name \in DOMAIN o THEN o[name] ELSE <<>>

\* pre_process as the handlers implement it: the handler of a container
\* narrows self.native to its own part (ConfigParser of the unit tests); the
\* handler of a list entry adds an entry of its own to the dict self.keys,
\* in place, which the plain dict allows any hook to do
Parser_pre_process(yy, h) ==
    IF dm[yy.schema].kind = "list"
    THEN [yy |-> yy,
          heap |-> [h EXCEPT ![yy.keys] = DictSet(@, "user", Parser_key(yy, h))]]
    ELSE IF yy.schema = RootPath THEN [yy |-> yy, heap |-> h]
    ELSE [yy |-> [yy EXCEPT !.native = NativeGet(@, dm[yy.schema].name)], heap |-> h]

\* extract_elements as the handlers implement it: the entries of the list
\* in self.native, each with its key
extract_elements(yy) ==
    LET entries == NativeGet(yy.native, dm[yy.schema].name)
    IN  [i \in 1..Len(entries) |->
            [key |-> entries[i][dm[yy.schema].keys[1]], native |-> entries[i]]]

\* the accessor of a leaf or leaf-list: a key leaf of the entry returns
\* self.yy.key, any other leaf its value in self.yy.native, None if missing
Accessor(yy, h, leaf) ==
    IF dm[yy.schema].kind = "list" /\ dm[leaf].name \in Range(dm[yy.schema].keys)
    THEN Some(Parser_key(yy, h))
    ELSE IF dm[leaf].name \in DOMAIN yy.native
    THEN Some(yy.native[dm[leaf].name]) ELSE None

\* Parser._get_child: the child parser shares native and keys
Parser_get_child(yy, child) == ParserData(child, yy.native, yy.keys)

\* Parser._get_key_name, all nodes being of one namespace
_get_key_name(node) == dm[node].name

\* Parser._process_container up to its loop: pre_process runs, then the
\* model filter decides whether the frame of the loop is entered or the
\* empty result returned at once; the check is skipped for the root, whose
\* data_path() raises the TypeError the code catches
Parser_process_container_enter(yy, h, lg, stk, keys) ==
    LET r == Parser_pre_process(yy, h)
    IN  [entered |-> yy.schema = RootPath \/ check(model_filter, PathText(yy.schema)),
         yy |-> r.yy,
         frame |-> ParserFrame("container", r.yy, keys, <<>>, 0, <<>>),
         heap |-> r.heap,
         log |-> Append(lg, ParserEvent("pre_process", yy.schema, yy, h, stk, None))]

\* the element loop without its deepcopy: every element writes into the
\* dict the parser already has
Mut_Parser_ElementKeys(yy, h, old_keys) == [heap |-> h, ref |-> yy.keys]

\* self.yy.keys = copy.deepcopy(old_keys) of the element loop
Parser_ElementKeys(yy, h, old_keys) == deepcopy(h, old_keys)

\* the element loop without self.yy.native = element_native
Mut_ElementData(yy, ref, element) == [yy EXCEPT !.keys = ref]

\* the keys and native the element loop gives the parser for one element
ElementData(yy, ref, element) ==
    [yy EXCEPT !.keys = ref, !.native = element.native]

\* result[key_name] = r if r is not empty
Attach(result, node, r) ==
    IF r # <<>> THEN DictSet(result, _get_key_name(node), r) ELSE result

----------------------------------------------------------------------------
(* Parser._process_container and Parser._process_list *)

ParserStep(fn, node) == Step(fn, node, <<>>, 0)

\* RootParser.process: init, then _process_container of the root
Parser_process ==
    /\ pc = "parse"
    /\ LET r == Parser_process_container_enter(ParserData(RootPath, native, 1),
                                               heap, log, stack, <<>>)
       IN  /\ stack' = <<r.frame>>
           /\ heap' = r.heap
           /\ log' = r.log
    /\ pc' = "parsing"
    /\ step' = ParserStep("process", RootPath)
    /\ UNCHANGED <<lines, tvars, dm, native, config, state, model_filter, parsed>>

InParserContainer ==
    /\ pc = "parsing" /\ stack # <<>> /\ Top.fn = "container"
    /\ Top.i <= Len(DataChildren(Top.yy))
InParserList == pc = "parsing" /\ stack # <<>> /\ Top.fn = "list"

\* the leaf test without the config/state classification
Mut_LeafSkipped_class(child, keys) ==
    /\ dm[child].name \notin Range(keys)
    /\ ~check(model_filter, PathText(child))

\* the leaf test without the exemption of the key leaves
Mut_LeafSkipped_keys(child, keys) ==
    \/ ~check(model_filter, PathText(child))
    \/ (dm[child].config /\ ~config)
    \/ (~dm[child].config /\ ~state)

\* the two "continue" of the leaf branch: a leaf whose name is not among
\* the keys handed to _process_container is skipped when the model filter
\* rejects its path or its class was not asked for
LeafSkipped(child, keys) ==
    /\ dm[child].name \notin Range(keys)
    /\ \/ ~check(model_filter, PathText(child))
       \/ (dm[child].config /\ ~config)
       \/ (~dm[child].config /\ ~state)

\* the leaf and leaf-list branch of the loop of _process_container
Parser_process_leaf ==
    /\ InParserContainer
    /\ dm[Child].kind \in {"leaf", "leaf-list"}
    /\ LET skipped == LeafSkipped(Child, Top.keys)
           r == Accessor(Top.yy, heap, Child)
       IN  IF skipped \/ ~dm[Child].impl
           THEN stack' = Advance /\ log' = log
           ELSE /\ log' = Append(log, ParserEvent("leaf", Child, Top.yy, heap, stack, r))
                /\ stack' = [Advance EXCEPT ![Len(stack)].result =
                                IF r # None THEN DictSet(@, _get_key_name(Child), r[1])
                                ELSE @]
    /\ step' = Step("_process_leaf", Child, <<>>, Len(log') - Len(log))
    /\ UNCHANGED <<lines, tvars, pvars, dm, pc, heap>>

\* the container branch: the child parser is created and entered
Parser_process_child_container ==
    /\ InParserContainer
    /\ dm[Child].kind = "container"
    /\ LET r == Parser_process_container_enter(Parser_get_child(Top.yy, Child),
                                               heap, log, stack, <<>>)
       IN  IF ~dm[Child].impl
           THEN stack' = Advance /\ UNCHANGED <<heap, log>>
           ELSE /\ heap' = r.heap
                /\ log' = r.log
                /\ stack' = IF r.entered THEN Append(stack, r.frame) ELSE Advance
    /\ step' = ParserStep("_process_container", Child)
    /\ UNCHANGED <<lines, tvars, pvars, dm, pc>>

\* extract_elements that never raises
Mut_ExtractRaises(child) == FALSE

\* ParserData.extract_elements, unless the handler overrides it, raises
\* NotImplementedError
ExtractRaises(child) == ~dm[child].extract

\* the list branch: _process_list of the child parser up to its loop, the
\* keys and native are saved and extract_elements is called
Parser_process_list ==
    /\ InParserContainer
    /\ dm[Child].kind = "list"
    /\ dm[Child].impl => ~ExtractRaises(Child)
    /\ LET attr == Parser_get_child(Top.yy, Child)
           old == deepcopy(heap, attr.keys)
       IN  IF ~dm[Child].impl
           THEN stack' = Advance /\ UNCHANGED <<heap, log>>
           ELSE /\ heap' = old.heap
                /\ log' = Append(log, ParserEvent("extract_elements", Child, attr,
                                                  heap, stack, None))
                /\ stack' = Append(stack,
                       ParserFrame("list", attr, dm[Child].keys,
                                   extract_elements(attr), old.ref, attr.native))
    /\ step' = ParserStep("_process_list", Child)
    /\ UNCHANGED <<lines, tvars, pvars, dm, pc>>

\* the list branch when extract_elements raises: nothing catches the error
\* on the way up, neither post_process nor the restoring of keys and native
\* runs, and RootParser.process returns nothing
Parser_process_list_raise ==
    /\ InParserContainer
    /\ dm[Child].kind = "list"
    /\ dm[Child].impl /\ ExtractRaises(Child)
    /\ LET attr == Parser_get_child(Top.yy, Child)
           old == deepcopy(heap, attr.keys)
       IN  /\ heap' = old.heap
           /\ log' = Append(log, ParserEvent("NotImplementedError", Child, attr,
                                             heap, stack, None))
    /\ stack' = <<>>
    /\ pc' = "raised"
    /\ step' = ParserStep("_process_list", Child)
    /\ UNCHANGED <<lines, tvars, pvars, dm>>

\* one iteration of the loop of _process_list: keys and native are set for
\* the element and _process_container of the same parser is entered
Parser_process_list_element ==
    /\ InParserList
    /\ Top.i < Len(Top.elements)
    /\ LET element == Top.elements[Top.i + 1]
           c == Parser_ElementKeys(Top.yy, heap, Top.old_keys)
           h == [c.heap EXCEPT ![c.ref] = DictSet(@, Top.yy.schema, element.key)]
           yy == ElementData(Top.yy, c.ref, element)
           stk == [stack EXCEPT ![Len(stack)].i = @ + 1, ![Len(stack)].yy = yy]
           r == Parser_process_container_enter(yy, h, log, stk, Top.keys)
       IN  /\ heap' = r.heap
           /\ log' = r.log
           /\ stack' = IF r.entered THEN Append(stk, r.frame)
                       ELSE [stk EXCEPT ![Len(stack)].yy = r.yy,
                                        ![Len(stack)].result = Append(@, <<>>)]
    /\ step' = ParserStep("_process_list_element", Top.yy.schema)
    /\ UNCHANGED <<lines, tvars, pvars, dm, pc>>

\* the end of _process_list: keys and native are restored, the list is
\* returned and attached by the caller when it is not empty
Parser_process_list_return ==
    /\ InParserList
    /\ Top.i = Len(Top.elements)
    /\ LET yy == [Top.yy EXCEPT !.keys = Top.old_keys, !.native = Top.old_native]
           caller == Len(stack) - 1
       IN  /\ log' = Append(log, ParserEvent("_process_list", yy.schema, yy, heap,
                                             Front(stack), None))
           /\ stack' = [Front(stack) EXCEPT
                           ![caller].result = Attach(@, Top.yy.schema, Top.result),
                           ![caller].i = @ + 1]
    /\ step' = ParserStep("_process_list_return", Top.yy.schema)
    /\ UNCHANGED <<lines, tvars, pvars, dm, pc, heap>>

\* the end of _process_container: post_process runs and the result goes to
\* the caller: attached by a parent container when it is not empty (a frame
\* "group" is the parent's loop over the children of a GroupNode), appended
\* by _process_list, handed to dm.from_raw by RootParser.process
Parser_process_container_return ==
    /\ pc = "parsing" /\ stack # <<>> /\ Top.fn = "container"
    /\ Top.i > Len(DataChildren(Top.yy))
    /\ log' = Append(log, ParserEvent("post_process", Top.yy.schema, Top.yy, heap,
                                      stack, None))
    /\ LET caller == Len(stack) - 1
       IN  IF caller = 0
           THEN /\ stack' = <<>>
                /\ parsed' = Some(Top.result)
                /\ pc' = "parsed"
           ELSE /\ stack' = IF stack[caller].fn = "list"
                            THEN [Front(stack) EXCEPT
                                    ![caller].result = Append(@, Top.result),
                                    ![caller].yy = Top.yy]
                            ELSE IF stack[caller].fn = "group"
                            THEN [Front(stack) EXCEPT
                                    ![caller - 1].result =
                                        Attach(@, Top.yy.schema, Top.result),
                                    ![caller].i = @ + 1]
                            ELSE [Front(stack) EXCEPT
                                    ![caller].result = Attach(@, Top.yy.schema, Top.result),
                                    ![caller].i = @ + 1]
                /\ UNCHANGED <<parsed, pc>>
    /\ step' = ParserStep("_process_container_return", Top.yy.schema)
    /\ UNCHANGED <<lines, tvars, dm, native, config, state, model_filter, heap>>

\* what the handlers find in the native data of an element besides its
\* name, value and sub entries
Detail(k) ==
    CASE k = 1 -> ("config" :> (("name" :> "a") @@ ("descr" :> "b")))
                  @@ ("state" :> ("counter" :> "a"))
      [] k = 2 -> ("config" :> ("descr" :> "a"))
      [] OTHER -> <<>>

ParserElements ==
    UNION {{[i \in 1..Len(ks) |->
                Element(ks[i], "a", IF d[i] = 1 THEN Some(SubEntries) ELSE None)
                @@ Detail(d[i])] : d \in [1..Len(ks) -> 1..3]} :
           ks \in UniqueSeqs(Keys, MaxElems)}

\* the native data given to RootParser
ParserNatives ==
    Trees \cup {("start" :> (("descr" :> "a") @@ ("element" :> es))) :
                    es \in ParserElements}

\* the include and exclude lists given to RootParser; include is ["/"] when
\* not given
Includes ==
    {<< <<>> >>, << <<"start", "element">> >>,
     << <<"start", "element", "config">> >>,
     << <<"start", "element", "state">>, <<"start", "descr">> >>,
     << <<"start", "element", "sub">> >>}
Excludes ==
    {<<>>, << <<"start", "element", "name">> >>,
     << <<"start", "element", "config", "name">>, <<"start", "element", "sub", "id">> >>,
     << <<"start", "element", "config">> >>,
     << <<"start", "element">> >>}

\* RootParser.__init__: the native data, config or state (one of them at
\* least, or ValueError is raised), the model filter
ParserInit ==
    /\ dm = ParserModel
    /\ native \in ParserNatives
    /\ config \in BOOLEAN
    /\ state \in BOOLEAN
    /\ config \/ state
    /\ model_filter \in {ModelFilter(i, e) : i \in Includes, e \in Excludes}
    /\ lines = <<>>
    /\ parsed = None
    /\ candidate = <<>> /\ running = None /\ replace = FALSE
    /\ pc = "parse"
    /\ stack = <<>>
    /\ heap = << <<>> >>
    /\ log = <<>>
    /\ step = ParserStep("", RootPath)

ParserNext ==
    \/ Parser_process
    \/ Parser_process_leaf
    \/ Parser_process_child_container
    \/ Parser_process_list
    \/ Parser_process_list_element
    \/ Parser_process_list_return
    \/ Parser_process_container_return

ParserSpec == ParserInit /\ [][ParserNext]_vars

----------------------------------------------------------------------------
(* The keys and native of the Parse Engine *)

ParserHookOps == {"pre_process", "post_process", "extract_elements", "leaf"}

\* the entries of keys the engine wrote: those named by a list's data path
EngineKeys(keys) == [n \in DOMAIN keys \ {"user"} |-> keys[n]]

\* the call of extract_elements that began the _process_list the event
\* log[i] of a list node belongs to
CallOf(i) ==
    LET calls == {j \in 1..(i - 1) : /\ log[j].op = "extract_elements"
                                     /\ log[j].node = log[i].node}
    IN  CHOOSE j \in calls : \A k \in calls : k <= j

IsParserEntryEvent(e) == e.op = "pre_process" /\ dm[e.node].kind = "list"

\* C9: whenever a hook or accessor of the parser runs, the engine-written
\* entries of keys are exactly the lists on the recursion path, each mapped
\* to the key of its element in progress; when the processing of a list
\* element begins, keys is the keys from before the _process_list call plus
\* the element's own key, so nothing added during an earlier element (a
\* handler's entry, a nested list's key) is seen; and when _process_list
\* returns, keys and native equal their values from before the call.
C9_KeysIsolation ==
    \A i \in 1..Len(log) :
        /\ log[i].op \in ParserHookOps
              => EngineKeys(log[i].keys) = log[i].lists
        /\ IsParserEntryEvent(log[i])
              => log[i].keys = DictSet(log[CallOf(i)].keys, log[i].node,
                                       log[i].lists[log[i].node])
        /\ log[i].op = "_process_list"
              => /\ log[i].keys = log[CallOf(i)].keys
                 /\ log[i].native = log[CallOf(i)].native

\* _process_list of /start/element has returned after two elements, the
\* first of which had an entry of the nested list processed
C9_Witness ==
    \E i, j, k \in 1..Len(log) :
        /\ j < k /\ k < i
        /\ log[i].op = "_process_list" /\ log[i].node = ElementPath
        /\ IsParserEntryEvent(log[j]) /\ log[j].node = SubPath
        /\ IsParserEntryEvent(log[k]) /\ log[k].node = ElementPath
        /\ CallOf(k) = CallOf(i)
        /\ CallOf(k) < j

----------------------------------------------------------------------------
(* The elements of a parsed list *)

\* the key leaf of a list node
KeyLeaf(node) == dm[node].keys[1]

\* out pairs with the elements one to one and in order: an entry is the
\* dict of its element, where the key accessor put the element's key, or
\* the empty dict of an element the model filter cut short
PairedInOrder(node, out, elements) ==
    \A k \in 1..Len(out) :
        out[k] = <<>> \/ out[k][KeyLeaf(node)] = elements[k].key

\* the elements extract_elements gave the _process_list that has just
\* returned for the node
ElementsOfCall(node) ==
    LET calls == {j \in 1..Len(log) : /\ log[j].op = "extract_elements"
                                      /\ log[j].node = node}
        call == log[CHOOSE j \in calls : \A k \in calls : k <= j]
    IN  extract_elements(ParserData(node, call.native, 1))

\* C11: _process_list produces exactly one output element for every pair
\* extract_elements yields, in the order yielded: the list being filled has
\* one entry per element done, the returned list one per pair; and while
\* the i-th element is processed the handler's native is the i-th slice and
\* its key the i-th key.
C11_OnePerPair ==
    /\ \A j \in 1..Len(stack) :
          stack[j].fn = "list" =>
            LET f == stack[j]
                node == f.yy.schema
            IN  /\ Len(f.result) = IF j < Len(stack) THEN f.i - 1 ELSE f.i
                /\ PairedInOrder(node, f.result, f.elements)
                /\ j < Len(stack) =>
                      /\ stack[j + 1].yy.schema = node
                      /\ stack[j + 1].yy.native = f.elements[f.i].native
                      /\ Parser_key(stack[j + 1].yy, heap) = f.elements[f.i].key
    /\ step.fn = "_process_list_return" =>
          LET out == NativeGet(Top.result, dm[step.node].name)
              elements == ElementsOfCall(step.node)
          IN  /\ Len(out) = Len(elements)
              /\ PairedInOrder(step.node, out, elements)

\* _process_list of /start/element has returned two elements, both with
\* their keys, in the order of the native data
C11_Witness ==
    /\ step.fn = "_process_list_return" /\ step.node = ElementPath
    /\ "element" \in DOMAIN Top.result
    /\ Len(Top.result.element) = 2
    /\ \A k \in 1..2 : "name" \in DOMAIN Top.result.element[k]
    /\ Top.result.element[1].name = "2"
    /\ Top.result.element[2].name = "1"

----------------------------------------------------------------------------
(* The leaves the parser asks for *)

\* the schema leaves that have a value in the parse result value of the
\* container or list element node
RECURSIVE OutLeaves(_, _)
OutLeaves(node, value) ==
    UNION {LET c == dm[node].children[i]
               nm == dm[c].name
           IN  IF nm \notin DOMAIN value THEN {}
               ELSE IF dm[c].kind \in {"leaf", "leaf-list"} THEN {c}
               ELSE IF dm[c].kind = "container" THEN OutLeaves(c, value[nm])
               ELSE UNION {OutLeaves(c, value[nm][k]) : k \in 1..Len(value[nm])} :
           i \in 1..Len(dm[node].children)}

\* a key leaf of a list, directly inside the list
IsKeyLeaf(leaf) ==
    /\ dm[dm[leaf].parent].kind = "list"
    /\ dm[leaf].name \in Range(dm[dm[leaf].parent].keys)

Requested(leaf) == (dm[leaf].config /\ config) \/ (~dm[leaf].config /\ state)

\* the engine has just looked at a leaf and called its accessor
AccessorCalled ==
    /\ step.n = 1
    /\ Last(log).op = "leaf"
    /\ Last(log).node = step.node

\* C12: the accessor of a leaf or leaf-list that is not a key leaf of the
\* element being processed is called iff the model filter accepts the
\* leaf's path and its class (config or state) is requested; so a parse of
\* config only yields no state leaf, a parse of state only no non-key
\* config leaf.
C12_LeafSelection ==
    /\ (step.fn = "_process_leaf" /\ dm[step.node].name \notin Range(Top.keys))
          => (AccessorCalled <=> /\ check(model_filter, PathText(step.node))
                                 /\ Requested(step.node))
    /\ parsed # None =>
          \A leaf \in OutLeaves(RootPath, parsed[1]) :
              /\ ~dm[leaf].config => state
              /\ (dm[leaf].config /\ ~IsKeyLeaf(leaf)) => config

\* a parse of state only has returned the state leaf and the key of an
\* element whose native data holds config leaves too
C12_Witness ==
    /\ parsed # None /\ ~config
    /\ {CounterPath, NamePath} \subseteq OutLeaves(RootPath, parsed[1])
    /\ ValuePath \notin OutLeaves(RootPath, parsed[1])
    /\ \E k \in 1..Len(native.start.element) :
           /\ "value" \in DOMAIN native.start.element[k]
           /\ "descr" \in DOMAIN native.start.element[k].config

----------------------------------------------------------------------------
(* The key leaves of a list element *)

RECURSIVE Ancestors(_)
Ancestors(node) ==
    IF node = RootPath THEN {} ELSE {dm[node].parent} \cup Ancestors(dm[node].parent)

\* a leaf inside a nested container of a list element that has the name of
\* a key leaf of the list
ShadowsKey(leaf) ==
    /\ dm[dm[leaf].parent].kind = "container"
    /\ \E l \in Ancestors(leaf) :
           dm[l].kind = "list" /\ dm[leaf].name \in Range(dm[l].keys)

\* C13: directly inside a list element the accessor of a leaf named like a
\* key leaf of the list is called, and its non-null value attached, whatever
\* the model filter says of its path and whatever class was requested; a
\* leaf of that name inside a nested container of the element is selected
\* like any other leaf.
C13_KeyLeafExempt ==
    /\ (step.fn = "_process_leaf" /\ IsKeyLeaf(step.node))
          => /\ AccessorCalled
             /\ Last(log).ret # None
                   => /\ dm[step.node].name \in DOMAIN Top.result
                      /\ Top.result[dm[step.node].name] = Last(log).ret[1]
    /\ (step.fn = "_process_leaf" /\ ShadowsKey(step.node))
          => (AccessorCalled <=> /\ check(model_filter, PathText(step.node))
                                 /\ Requested(step.node))

\* a parse of state only, with a filter that rejects /start/element/name,
\* has returned elements with their name, and without the name their
\* container config holds in the native data
C13_Witness ==
    /\ parsed # None /\ ~config
    /\ ~check(model_filter, PathText(NamePath))
    /\ check(model_filter, PathText(ConfigNamePath))
    /\ NamePath \in OutLeaves(RootPath, parsed[1])
    /\ ConfigNamePath \notin OutLeaves(RootPath, parsed[1])
    /\ \E k \in 1..Len(native.start.element) :
           /\ "config" \in DOMAIN native.start.element[k]
           /\ "name" \in DOMAIN native.start.element[k].config

----------------------------------------------------------------------------
(* yangify.parser.text_tree: lines of text *)

MaxLines == 3        \* most lines of a document drawn
MaxSpaces == 2       \* deepest indentation drawn

\* a line of text: spaces blanks, then the words separated by single
\* blanks; a line without words is blank or made of whitespace only
Line(spaces, words) == [spaces |-> spaces, words |-> words]

\* str.rstrip and str.lstrip
rstrip(line) == IF line.words = <<>> THEN Line(0, <<>>) ELSE line
lstrip(line) == Line(0, line.words)

\* len(line) - len(last)
leading_spaces(line) == line.spaces - lstrip(line).spaces

\* line.lstrip().startswith("!")
IsComment(line) == line.words # <<>> /\ line.words[1] = "!"

\* path_str.split(" "): the words, and [""] for the empty string
split(last) == IF last.words = <<>> THEN <<"">> ELSE last.words

----------------------------------------------------------------------------
(* _attach_data_to_path: dicts are objects of the heap, a dict held as a
   value is [ref |-> its index]; "#text" holds the words of the joined
   path, "#list" a sequence of one-entry dicts [word |-> p, ref |-> o] *)

Dict(ref) == [ref |-> ref]

\* the loop "while True" of _attach_data_to_path from the dict o on, up to
\* its break
RECURSIVE AttachLoop(_, _, _, _, _, _)
AttachLoop(h, obj, o, path, list_, first) ==
    LET h1 == [h EXCEPT ![o] = DictSet(@, "#text", path)]
        p == Head(path)
        rest == Tail(path)
    IN  IF rest = <<>> THEN [heap |-> h1, o |-> o, p |-> p]
        ELSE LET h2 == IF p \in DOMAIN h1[o] THEN h1
                       ELSE Append([h1 EXCEPT ![o] = DictSet(@, p, Dict(Len(h1) + 1))],
                                   <<>>)
                 o2 == h2[o][p].ref
                 h3 == IF first /\ list_
                       THEN [h2 EXCEPT ![obj] =
                               DictSet(@, "#list",
                                       Append(@["#list"], [word |-> p, ref |-> o2]))]
                       ELSE h2
             IN  AttachLoop(h3, obj, o2, rest, list_, FALSE)

\* _attach_data_to_path(obj, path_str, data, list_): the heap afterwards
\* and the dict that holds the data in the end (data itself, or the dict
\* already there, updated with the entries of data)
_attach_data_to_path(h, obj, path_str, data, list_) ==
    LET h0 == IF "#list" \notin DOMAIN h[obj]
              THEN [h EXCEPT ![obj] = DictSet(@, "#list", <<>>)] ELSE h
        r == AttachLoop(h0, obj, obj, split(path_str), list_, TRUE)
        into == IF r.p \in DOMAIN r.heap[r.o] THEN r.heap[r.o][r.p].ref ELSE data
        h4 == IF r.p \in DOMAIN r.heap[r.o]
              THEN [r.heap EXCEPT ![into] = r.heap[data] @@ @]
              ELSE [r.heap EXCEPT ![r.o] = DictSet(@, r.p, Dict(data))]
    IN  [heap |-> [h4 EXCEPT ![into] = DictSet(@, "#standalone", TRUE)],
         into |-> into]

----------------------------------------------------------------------------
(* parse_indented_config: one frame per call *)

\* a call of parse_indented_config: its arguments, its dict parsed, and,
\* while it waits for a nested call, the stripped line (last) that call
\* was made for. owner and idx say which line of the document opened the
\* block and which line last is (0: the top-level call).
TextFrame(current_indent, previous_indent, nested, ref, owner) ==
    [current_indent |-> current_indent, previous_indent |-> previous_indent,
     nested |-> nested, parsed |-> ref, owner |-> owner,
     last |-> Line(0, <<>>), idx |-> 0]

\* the position in the document of the line at the head of lines
HeadIdx == Len(native) - Len(lines) + 1

InText == pc = "parsing_text" /\ stack # <<>>

\* the line read by config.pop(0).rstrip()
line == rstrip(Head(lines))

\* an attachment made by the call of a block: which line, into which
\* block, the dicts concerned
Attached(f, data, into) ==
    [line |-> f.idx, block |-> f.owner, obj |-> f.parsed, path |-> split(f.last),
     data |-> data, into |-> into, list_ |-> f.nested]

\* the first call: parse_indented_config(config)
parse_indented_config ==
    /\ pc = "text"
    /\ heap' = << <<>> >>
    /\ stack' = <<TextFrame(0, 0, FALSE, 1, 0)>>
    /\ pc' = "parsing_text"
    /\ step' = ParserStep("parse_indented_config", RootPath)
    /\ UNCHANGED <<lines, tvars, pvars, dm, log>>

\* a line that starts with "!" is dropped
text_continue ==
    /\ InText /\ lines # <<>>
    /\ IsComment(line)
    /\ lines' = Tail(lines)
    /\ step' = ParserStep("continue", RootPath)
    /\ UNCHANGED <<tvars, pvars, dm, pc, stack, heap, log>>

\* the test without "if not nested": a line at the indentation of the
\* block always opens a nested block
Mut_Descends_equal(f, l) == leading_spaces(l) >= f.current_indent

\* the test without the branch of the first call for a line at its own
\* indentation
Mut_Descends_deeper(f, l) == leading_spaces(l) > f.current_indent

\* the two branches that call parse_indented_config for the line
Descends(f, l) ==
    \/ leading_spaces(l) > f.current_indent
    \/ leading_spaces(l) = f.current_indent /\ ~f.nested

\* the line opens a block: the nested call begins with a new dict
text_nested_call ==
    /\ InText /\ lines # <<>>
    /\ ~IsComment(line)
    /\ Descends(Top, line)
    /\ lines' = Tail(lines)
    /\ heap' = Append(heap, <<>>)
    /\ stack' = Append([stack EXCEPT ![Len(stack)].last = lstrip(line),
                                     ![Len(stack)].idx = HeadIdx],
                       TextFrame(leading_spaces(line), Top.current_indent, TRUE,
                                 Len(heap) + 1, HeadIdx))
    /\ step' = ParserStep("parse_indented_config", RootPath)
    /\ UNCHANGED <<tvars, pvars, dm, pc, log>>

\* return parsed: the caller attaches it at the path of its line, the
\* first call hands it out
TextReturn ==
    IF Len(stack) = 1
    THEN /\ parsed' = Some(Top.parsed)
         /\ pc' = "text_done"
         /\ stack' = <<>>
         /\ UNCHANGED <<heap, log>>
    ELSE LET f == stack[Len(stack) - 1]
             r == _attach_data_to_path(heap, f.parsed, f.last, Top.parsed, f.nested)
         IN  /\ heap' = r.heap
             /\ log' = Append(log, Attached(f, Top.parsed, r.into))
             /\ stack' = Front(stack)
             /\ UNCHANGED <<parsed, pc>>

\* "if not config: break"
text_break_empty ==
    /\ InText /\ lines = <<>>
    /\ TextReturn
    /\ step' = ParserStep("break", RootPath)
    /\ UNCHANGED <<lines, tvars, native, config, state, model_filter, dm>>

\* the line belongs to an outer block: it is put back, stripped on the
\* right, and the call returns
text_break_line ==
    /\ InText /\ lines # <<>>
    /\ ~IsComment(line)
    /\ ~Descends(Top, line)
    /\ lines' = <<line>> \o Tail(lines)
    /\ TextReturn
    /\ step' = ParserStep("insert", RootPath)
    /\ UNCHANGED <<tvars, native, config, state, model_filter, dm>>

Words == {"a", "b"}

\* the lines drawn: one to three words, a comment, a blank line and
\* lines of whitespace, at every indentation
Bodies == {<<"a">>, <<"b">>, <<"a", "b">>, <<"a", "b", "a">>, <<"!">>, <<>>}
DocumentsOf(bodies) ==
    UNION {[1..n -> {Line(sp, w) : sp \in 0..MaxSpaces, w \in bodies}] : n \in 0..MaxLines}
Documents == DocumentsOf(Bodies)

\* the documents that differ in what the loop of parse_indented_config
\* looks at: the indentation, comment or not, blank or not
ControlDocuments == DocumentsOf({<<"a">>, <<"!">>, <<>>})

TextInitOf(documents) ==
    /\ native \in documents
    /\ lines = native
    /\ pc = "text"
    /\ stack = <<>>
    /\ heap = <<>>
    /\ log = <<>>
    /\ parsed = None
    /\ step = ParserStep("", RootPath)
    /\ dm = TestModel
    /\ candidate = <<>> /\ running = None /\ replace = FALSE
    /\ config = TRUE /\ state = FALSE
    /\ model_filter = ModelFilter(<<>>, <<>>)

TextInit == TextInitOf(Documents)

TextNext ==
    \/ parse_indented_config
    \/ text_continue
    \/ text_nested_call
    \/ text_break_empty
    \/ text_break_line

TextSpec == TextInit /\ [][TextNext]_vars

\* the calls run to their end: nothing but the function itself runs
TextFairSpec == TextInitOf(ControlDocuments) /\ [][TextNext]_vars /\ WF_vars(TextNext)

----------------------------------------------------------------------------
(* The blocks of the indentation parser *)

NonComment(i) == ~IsComment(rstrip(native[i]))
Indent(i) == leading_spaces(rstrip(native[i]))

\* the nearest non-comment line before line i that is indented strictly
\* less, 0 when there is none
BlockOf(i) ==
    LET above == {j \in 1..(i - 1) : NonComment(j) /\ Indent(j) < Indent(i)}
    IN  IF above = {} THEN 0 ELSE CHOOSE j \in above : \A k \in above : k <= j

AttachedLines == {log[k].line : k \in 1..Len(log)}

\* C14: every attachment is that of a non-comment line into the block of
\* the nearest preceding non-comment line indented strictly less (the top
\* level when there is none), comment lines counting for nothing; and when
\* the first call returns every non-comment line has been attached exactly
\* once, so the line that ended a block was not lost.
C14_Blocks ==
    /\ \A k \in 1..Len(log) :
          /\ NonComment(log[k].line)
          /\ log[k].block = BlockOf(log[k].line)
          /\ \A k2 \in 1..Len(log) : log[k2].line = log[k].line => k2 = k
    /\ pc = "text_done" =>
          AttachedLines = {i \in 1..Len(native) : NonComment(i)}

\* a document of three lines was parsed: a line, an indented comment, and
\* a line indented more than the first and less than the comment, which
\* went into the block of the first
C14_Witness ==
    /\ pc = "text_done" /\ Len(native) = 3
    /\ NonComment(1) /\ ~NonComment(2) /\ NonComment(3)
    /\ native[2].spaces > native[3].spaces
    /\ \E k \in 1..Len(log) : log[k].line = 3 /\ log[k].block = 1

----------------------------------------------------------------------------
(* The map of words of the indentation parser *)

\* the keys of a dict that are words of lines
WordKeys(d) == DOMAIN d \ {"#text", "#list", "#standalone"}

\* the dict reached from the dict ref by the chain of words, if there
RECURSIVE Reach(_, _)
Reach(ref, path) ==
    IF path = <<>> THEN Some(ref)
    ELSE IF Head(path) \in WordKeys(heap[ref])
    THEN Reach(heap[ref][Head(path)].ref, Tail(path))
    ELSE None

\* the chains of words that lead from the dict ref to a dict
RECURSIVE Chains(_)
Chains(ref) ==
    {<<>>} \cup UNION {{<<w>> \o c : c \in Chains(heap[ref][w].ref)} :
                         w \in WordKeys(heap[ref])}

LineWords(i) == split(lstrip(rstrip(native[i])))

\* the words from the top level down to the last word of line i: those of
\* the lines it is nested in, then its own
RECURSIVE FullPath(_)
FullPath(i) == IF i = 0 THEN <<>> ELSE FullPath(BlockOf(i)) \o LineWords(i)

IsPrefix(p, q) == Len(p) <= Len(q) /\ SubSeq(q, 1, Len(p)) = p

HasStandalone(ref) ==
    "#standalone" \in DOMAIN heap[ref] /\ heap[ref]["#standalone"] = TRUE

\* every line has its chain of words in the map of its block, and the
\* dict reached by its last word is marked
ChainsKept ==
    \A i \in 1..Len(native) :
        NonComment(i) =>
            LET m == Reach(parsed[1], FullPath(i))
            IN  m # None /\ HasStandalone(m[1])

\* only the dict a line ends at is marked
StandaloneOnlyAtEnds ==
    \A c \in Chains(parsed[1]) :
        HasStandalone(Reach(parsed[1], c)[1])
            => \E i \in 1..Len(native) : NonComment(i) /\ FullPath(i) = c

\* the lines of the block of line i that go through the dict reached by
\* the first k words of line i
Through(i, k) ==
    {j \in 1..Len(native) :
        /\ NonComment(j) /\ BlockOf(j) = BlockOf(i)
        /\ Len(LineWords(j)) > k
        /\ SubSeq(LineWords(j), 1, k) = SubSeq(LineWords(i), 1, k)}

\* the dict reached by a word that is not the last of its line holds in
\* "#text" the rest of the last line that went through it
TextOfLatest ==
    \A i \in 1..Len(native) :
        NonComment(i) =>
            \A k \in 1..(Len(LineWords(i)) - 1) :
                LET m == Reach(parsed[1],
                               FullPath(BlockOf(i)) \o SubSeq(LineWords(i), 1, k))
                    j == CHOOSE j \in Through(i, k) : \A j2 \in Through(i, k) : j2 <= j
                IN  /\ m # None
                    /\ "#text" \in DOMAIN heap[m[1]]
                    /\ heap[m[1]]["#text"] =
                          SubSeq(LineWords(j), k + 1, Len(LineWords(j)))

\* C15: in the map parse_indented_config returns, every non-comment line
\* w1..wn has its chain map[w1]...[wn] in the map of its block, whatever
\* other lines share a prefix with it; the dict reached by wn carries
\* "#standalone" = true and no dict carries it unless a line ends there;
\* for k < n the dict reached by wk holds in "#text" the words after wk of
\* the line most recently attached through it.
C15_Chains ==
    pc = "text_done" => ChainsKept /\ StandaloneOnlyAtEnds /\ TextOfLatest

----------------------------------------------------------------------------
(* "#list" and the end of the parse *)

\* the lines of the block of line i, in the order of the document
RECURSIVE InOrder(_)
InOrder(S) ==
    IF S = {} THEN <<>>
    ELSE LET i == CHOOSE i \in S : \A j \in S : i <= j
         IN  <<i>> \o InOrder(S \ {i})
BlockLines(i) == InOrder({j \in 1..Len(native) : NonComment(j) /\ BlockOf(j) = i})

\* C16: in the map returned, the dict of every nested block holds in
\* "#list" one entry per line of the block, in the order of the lines, each
\* pairing the first word of its line with the dict that word leads to.
C16_ListEntries ==
    pc = "text_done" =>
        \A i \in 1..Len(native) :
            (NonComment(i) /\ BlockLines(i) # <<>>) =>
                LET m == Reach(parsed[1], FullPath(i))
                    block == BlockLines(i)
                IN  /\ m # None
                    /\ "#list" \in DOMAIN heap[m[1]]
                    /\ Len(heap[m[1]]["#list"]) = Len(block)
                    /\ \A k \in 1..Len(block) :
                          LET entry == heap[m[1]]["#list"][k]
                          IN  /\ entry.word = LineWords(block[k])[1]
                              /\ Some(entry.ref) = Reach(m[1], <<entry.word>>)

\* C17: parse_indented_config comes to its end on every document, blank
\* lines, lines of whitespace and indentation in any order included, and
\* the first call returns only when every line has been consumed.
C17_Terminates ==
    /\ <>(pc = "text_done")
    /\ [](pc = "text_done" => lines = <<>>)

\* the parse of a document has ended whose lines are indented 2, then a
\* line of whitespace, then a line indented 1
C17_Witness ==
    /\ pc = "text_done" /\ lines = <<>>
    /\ Len(native) = 3
    /\ native[1].spaces = 2 /\ native[1].words # <<>> /\ NonComment(1)
    /\ native[2].spaces = 2 /\ native[2].words = <<>>
    /\ native[3].spaces = 1 /\ native[3].words # <<>> /\ NonComment(3)

----------------------------------------------------------------------------
(* yangify.translator.config_tree.ConfigTree: the objects are in the heap;
   every ConfigTree ever made stays in the hands of its maker *)

MaxCalls == 4        \* most method calls made on the trees

\* the texts given as headers and as commands; "h" is given as both
Headers == {"h", ""}
Commands == {"h", "x"}

\* a child: a command (str) or a section (a ConfigTree, by reference)
Command(text) == [kind |-> "str", text |-> text, ref |-> 0]
Section(ref) == [kind |-> "ConfigTree", text |-> "", ref |-> ref]

\* ConfigTree.__init__
ConfigTree(header) == [_header |-> header, _children |-> <<>>]

\* the tree after c = ConfigTree(header); self._children.append(c)
NewSection(h, self, header) ==
    Append([h EXCEPT ![self]._children = Append(@, Section(Len(h) + 1))],
           ConfigTree(Some(header)))

\* add_command that appends whatever the node holds already
Mut_AddCommand(h, self, child) ==
    [h EXCEPT ![self]._children = Append(@, Command(child))]

\* the tree after add_command: child is appended if not in self._children
AddCommand(h, self, child) ==
    IF Command(child) \notin Range(h[self]._children)
    THEN [h EXCEPT ![self]._children = Append(@, Command(child))]
    ELSE h

\* the loop that stops at the last matching section instead of the first
Mut_PopIndex(h, self, header) ==
    LET hits == {i \in 1..Len(h[self]._children) :
                    /\ h[self]._children[i].kind = "ConfigTree"
                    /\ h[h[self]._children[i].ref]._header = Some(header)}
    IN  IF hits = {} THEN 0 ELSE CHOOSE i \in hits : \A j \in hits : j <= i

\* the loop of pop_section: the index of the first child that is a
\* ConfigTree with the header, 0 when the loop ends without break
PopIndex(h, self, header) ==
    LET hits == {i \in 1..Len(h[self]._children) :
                    /\ h[self]._children[i].kind = "ConfigTree"
                    /\ h[h[self]._children[i].ref]._header = Some(header)}
    IN  IF hits = {} THEN 0 ELSE CHOOSE i \in hits : \A j \in hits : i <= j

\* list.pop(i)
Pop(s, i) == SubSeq(s, 1, i - 1) \o SubSeq(s, i + 1, Len(s))

\* to_string that writes the header of every node, empty or not
RECURSIVE Mut_to_string(_, _)
Mut_to_string(h, self) ==
    LET RECURSIVE Children(_)
        Children(cs) ==
            IF cs = <<>> THEN <<>>
            ELSE (IF Head(cs).kind = "ConfigTree" THEN Mut_to_string(h, Head(cs).ref)
                  ELSE <<Head(cs).text>>) \o Children(Tail(cs))
    IN  (IF h[self]._header # None THEN <<h[self]._header[1]>> ELSE <<>>)
        \o Children(h[self]._children)

\* to_string, the text as the sequence of its lines, each ended by "\n"
RECURSIVE to_string(_, _)
to_string(h, self) ==
    LET RECURSIVE Children(_)
        Children(cs) ==
            IF cs = <<>> THEN <<>>
            ELSE (IF Head(cs).kind = "ConfigTree" THEN to_string(h, Head(cs).ref)
                  ELSE <<Head(cs).text>>) \o Children(Tail(cs))
    IN  (IF h[self]._header # None /\ h[self]._header[1] # ""
         THEN <<h[self]._header[1]>> ELSE <<>>)
        \o Children(h[self]._children)

\* a method call as the caller saw it: the object, the argument, what came
\* back (ret: the ConfigTree returned, 0 for none) or was raised, and the
\* text of every tree after the call
Call(op, self, arg, ret, raised, h) ==
    [op |-> op, self |-> self, arg |-> arg, ret |-> ret, raised |-> raised,
     text |-> [n \in 1..Len(h) |-> to_string(h, n)]]

InTree == pc = "tree" /\ Len(log) < MaxCalls

new_section ==
    /\ InTree
    /\ \E self \in 1..Len(heap), header \in Headers :
          /\ heap' = NewSection(heap, self, header)
          /\ log' = Append(log, Call("new_section", self, header, Len(heap) + 1,
                                     "", heap'))
    /\ step' = ParserStep("new_section", RootPath)
    /\ UNCHANGED <<lines, tvars, pvars, dm, pc, stack>>

add_command ==
    /\ InTree
    /\ \E self \in 1..Len(heap), child \in Commands :
          /\ heap' = AddCommand(heap, self, child)
          /\ log' = Append(log, Call("add_command", self, child, 0, "", heap'))
    /\ step' = ParserStep("add_command", RootPath)
    /\ UNCHANGED <<lines, tvars, pvars, dm, pc, stack>>

pop_section ==
    /\ InTree
    /\ \E self \in 1..Len(heap), header \in Headers :
          LET i == PopIndex(heap, self, header)
          IN  IF i = 0
              THEN /\ heap' = heap
                   /\ log' = Append(log, Call("pop_section", self, header, 0,
                                              "ValueError", heap))
              ELSE /\ heap' = [heap EXCEPT ![self]._children = Pop(@, i)]
                   /\ log' = Append(log, Call("pop_section", self, header,
                                              heap[self]._children[i].ref, "", heap'))
    /\ step' = ParserStep("pop_section", RootPath)
    /\ UNCHANGED <<lines, tvars, pvars, dm, pc, stack>>

\* config = ConfigTree()
TreeInit ==
    /\ heap = <<ConfigTree(None)>>
    /\ pc = "tree"
    /\ log = <<>>
    /\ stack = <<>>
    /\ step = ParserStep("", RootPath)
    /\ lines = <<>> /\ native = <<>> /\ parsed = None
    /\ dm = TestModel
    /\ candidate = <<>> /\ running = None /\ replace = FALSE
    /\ config = TRUE /\ state = FALSE
    /\ model_filter = ModelFilter(<<>>, <<>>)

TreeNext == new_section \/ add_command \/ pop_section

TreeSpec == TreeInit /\ [][TreeNext]_vars

----------------------------------------------------------------------------
(* The text, the commands and the sections of a ConfigTree *)

\* the children the calls made so far leave the node n with: sections in
\* the order of their new_section unless popped since, commands in the
\* order of their first add_command
RECURSIVE Surviving(_, _)
Surviving(n, k) ==
    IF k = 0 THEN <<>>
    ELSE LET e == log[k]
             before == Surviving(n, k - 1)
         IN  IF e.self # n \/ e.raised # "" THEN before
             ELSE IF e.op = "new_section" THEN Append(before, Section(e.ret))
             ELSE IF e.op = "add_command"
             THEN IF Command(e.arg) \in Range(before) THEN before
                  ELSE Append(before, Command(e.arg))
             ELSE SelectSeq(before, LAMBDA c : c # Section(e.ret))

\* the header the node n was made with: none for the first tree
HeaderOf(n) ==
    IF n = 1 THEN None
    ELSE Some(log[CHOOSE k \in 1..Len(log) :
                    log[k].op = "new_section" /\ log[k].ret = n].arg)

\* the lines of the node n: its header unless absent or empty, then its
\* surviving children in the order they were inserted, depth first
RECURSIVE Rendering(_)
Rendering(n) ==
    LET RECURSIVE Each(_)
        Each(cs) ==
            IF cs = <<>> THEN <<>>
            ELSE (IF Head(cs).kind = "str" THEN <<Head(cs).text>>
                  ELSE Rendering(Head(cs).ref)) \o Each(Tail(cs))
    IN  (IF HeaderOf(n) \in {None, Some("")} THEN <<>> ELSE <<HeaderOf(n)[1]>>)
        \o Each(Surviving(n, Len(log)))

\* C18: after any sequence of new_section, add_command and pop_section
\* calls, to_string() of every tree is its header line (left out when the
\* header is absent or empty) followed by its surviving direct children in
\* the order they were inserted, a command as one line and a section as
\* its own to_string().
C18_Rendering ==
    pc = "tree" => \A n \in 1..Len(heap) : to_string(heap, n) = Rendering(n)

\* the first tree holds, in this order, a section with a header that
\* holds a command, a section with the empty header and a command: three
\* lines
C18_Witness ==
    /\ pc = "tree" /\ Len(heap) = 3
    /\ heap[1]._children = <<Section(2), Section(3), Command("x")>>
    /\ heap[2]._header = Some("h") /\ heap[2]._children = <<Command("x")>>
    /\ heap[3]._header = Some("") /\ heap[3]._children = <<>>
    /\ to_string(heap, 1) = <<"h", "x", "x">>

\* the call made by the step, if the step is a call
Called == log' = Append(log, Last(log'))

CommandsOf(h, n) == SelectSeq(h[n]._children, LAMBDA c : c.kind = "str")

\* C19: no tree ever holds the same command twice among its direct
\* children; add_command of a line the node holds already leaves every
\* tree as it was, and a line the node does not hold is appended, whatever
\* the other trees hold.
C19_NoDuplicates ==
    /\ [](pc = "tree" =>
            \A n \in 1..Len(heap) :
                \A i, j \in 1..Len(CommandsOf(heap, n)) :
                    CommandsOf(heap, n)[i] = CommandsOf(heap, n)[j] => i = j)
    /\ [][(Called /\ Last(log').op = "add_command") =>
            LET e == Last(log')
            IN  IF Command(e.arg) \in Range(heap[e.self]._children)
                THEN heap' = heap
                ELSE heap' = [heap EXCEPT ![e.self]._children =
                                             Append(@, Command(e.arg))]]_vars

\* "h" was added twice to the first tree, which holds it once, and once
\* to a section of the first tree, which holds it too
C19_Witness ==
    /\ pc = "tree" /\ Len(heap) = 2
    /\ \E i, j, k \in 1..Len(log) :
          /\ i < j
          /\ log[i].op = "add_command" /\ log[i].self = 1 /\ log[i].arg = "h"
          /\ log[j].op = "add_command" /\ log[j].self = 1 /\ log[j].arg = "h"
          /\ log[k].op = "add_command" /\ log[k].self = 2 /\ log[k].arg = "h"
    /\ Section(2) \in Range(heap[1]._children)
    /\ Len(CommandsOf(heap, 1)) = 1
    /\ CommandsOf(heap, 2) = <<Command("h")>>

\* the direct children of the node that are sections with the header
SectionsWith(h, n, header) ==
    {i \in 1..Len(h[n]._children) :
        /\ h[n]._children[i].kind = "ConfigTree"
        /\ h[h[n]._children[i].ref]._header = Some(header)}

\* C20: pop_section(header) removes and returns the first direct child
\* section with that header and leaves the other children, their order
\* and every other tree as they were; when no direct child section has the
\* header it raises ValueError and no tree changes.
C20_PopSection ==
    [][(Called /\ Last(log').op = "pop_section") =>
          LET e == Last(log')
              cs == heap[e.self]._children
              hits == SectionsWith(heap, e.self, e.arg)
          IN  IF hits = {}
              THEN e.raised = "ValueError" /\ heap' = heap
              ELSE LET i == CHOOSE i \in hits : \A j \in hits : i <= j
                   IN  /\ e.raised = "" /\ e.ret = cs[i].ref
                       /\ heap' = [heap EXCEPT ![e.self]._children =
                                      SubSeq(cs, 1, i - 1) \o SubSeq(cs, i + 1, Len(cs))]]_vars

\* the first tree got a section "h", the command "h" and another section
\* "h"; pop_section("h") returned the first section and left the rest
C20_Witness ==
    /\ pc = "tree" /\ Len(log) = 4
    /\ log[4].op = "pop_section" /\ log[4].self = 1 /\ log[4].arg = "h"
    /\ log[4].ret = 2 /\ log[4].raised = ""
    /\ heap[1]._children = <<Command("h"), Section(3)>>
    /\ heap[3]._header = Some("h")

----------------------------------------------------------------------------
(* ModelFilter on strings: a string is the sequence of its characters *)

MaxPathLen == 2      \* longest string drawn, in characters

Chars == {"/", "a"}
Strings == UNION {[1..n -> Chars] : n \in 0..MaxPathLen}

\* the strings of tests/unit/test_model_filter.py in short: an include
\* entry, a path above it, one below it, one beside it
PathAB == <<"/", "a", "/", "b">>
PathABC == <<"/", "a", "/", "b", "/", "c">>
PathABD == <<"/", "a", "/", "b", "/", "d">>
PathX == <<"/", "x">>
ExampleStrings == {PathAB, PathABC, PathABD, PathX}

\* the arguments of ModelFilter(include, exclude) and of check(path)
FilterArgs ==
    [include : {<<>>} \cup {<<i>> : i \in Strings}
                      \cup {<<i, j>> : i, j \in Strings},
     exclude : {<<>>} \cup {<<e>> : e \in Strings}]
    \cup {[include |-> <<PathAB>>, exclude |-> <<PathABC>>]}

\* mf = ModelFilter(include, exclude)
FilterInit ==
    /\ native \in FilterArgs
    /\ model_filter = ModelFilter(native.include, native.exclude)
    /\ pc = "filter"
    /\ parsed = None
    /\ lines = <<>>
    /\ stack = <<>> /\ heap = <<>> /\ log = <<>>
    /\ step = ParserStep("", RootPath)
    /\ dm = TestModel
    /\ candidate = <<>> /\ running = None /\ replace = FALSE
    /\ config = TRUE /\ state = FALSE

\* mf.check(path): lines holds the path asked, parsed the answer
ModelFilter_check ==
    /\ pc = "filter"
    /\ \E path \in Strings \cup ExampleStrings :
          /\ lines' = path
          /\ parsed' = Some(check(model_filter, path))
    /\ pc' = "checked"
    /\ step' = ParserStep("check", RootPath)
    /\ UNCHANGED <<tvars, dm, native, config, state, model_filter, stack, heap, log>>

FilterSpec == FilterInit /\ [][ModelFilter_check]_vars

\* p is the beginning of q: q is p followed by some string
IsStringPrefix(p, q) == \E k \in 0..Len(q) : SubSeq(q, 1, k) = p

\* C21: check(path) is true iff path is a string prefix of, or has as a
\* string prefix, some entry of include (any path when include was given
\* empty) and path is no entry of exclude; the filter is after the call
\* what the constructor made of its arguments; and with include [/a/b] and
\* exclude [/a/b/c], /a/b/c and /x are rejected, /a/b and /a/b/d accepted.
C21_Check ==
    pc = "checked" =>
        /\ parsed[1] <=>
              /\ \/ native.include = <<>>
                 \/ \E i \in 1..Len(native.include) :
                       \/ IsStringPrefix(lines, native.include[i])
                       \/ IsStringPrefix(native.include[i], lines)
              /\ \A i \in 1..Len(native.exclude) : native.exclude[i] # lines
        /\ model_filter = ModelFilter(native.include, native.exclude)
        /\ (native.include = <<PathAB>> /\ native.exclude = <<PathABC>>) =>
              /\ lines \in {PathABC, PathX} => ~parsed[1]
              /\ lines \in {PathAB, PathABD} => parsed[1]

\* with include [/a/b] and exclude [/a/b/c] the path /a/b/d was accepted
C21_Witness ==
    /\ pc = "checked"
    /\ native.include = <<PathAB>> /\ native.exclude = <<PathABC>>
    /\ lines = PathABD /\ parsed = Some(TRUE)

----------------------------------------------------------------------------
(* Handler trees with a member or a hook missing *)

\* a handler tree that has no member named after node
WithoutHandler(model, node) == [model EXCEPT ![node].impl = FALSE]

\* a handler tree where the Yangify class of the parser of node keeps the
\* extract_elements of ParserData
WithoutExtract(model, node) == [model EXCEPT ![node].extract = FALSE]

\* the nodes whose member is left out, one at a time: a container, a list,
\* a leaf and a leaf-list of the container start, and the same one level
\* down, in the list element
Unhandled == {ConfigPath, ElementPath, SubPath, DescrPath, ValuePath, MembersPath}

ParserHandlers ==
    {ParserModel}
    \cup {WithoutExtract(ParserModel, n) : n \in {ElementPath, SubPath}}
    \cup {WithoutHandler(ParserModel, n) : n \in Unhandled}

\* RootParser.__init__ with one of the handler trees and no filter given
HandlerParserInit ==
    /\ dm \in ParserHandlers
    /\ native \in ParserNatives
    /\ config = TRUE
    /\ state \in BOOLEAN
    /\ model_filter = ModelFilter(<< <<>> >>, <<>>)
    /\ lines = <<>>
    /\ parsed = None
    /\ candidate = <<>> /\ running = None /\ replace = FALSE
    /\ pc = "parse"
    /\ stack = <<>>
    /\ heap = << <<>> >>
    /\ log = <<>>
    /\ step = ParserStep("", RootPath)

TranslatorHandlers ==
    {TestModel}
    \cup {WithoutHandler(TestModel, n) : n \in Unhandled \cap DOMAIN TestModel}

\* candidate and running trees with leaves, leaf-lists and nested lists
HandlerLeaves ==
    {<<>>, ("descr" :> "a") @@ ("members" :> <<"a", "b">>) @@ ("tags" :> <<"a">>),
     ("descr" :> "b") @@ ("members" :> <<"b">>)}
HandlerElements ==
    {<<>>,
     ("element" :> <<Element("1", "a", Some(SubEntries))>>),
     ("element" :> <<Element("1", "b", None), Element("2", "a", Some(SubEntries))>>)}
HandlerTrees ==
    {<<>>} \cup {("start" :> (l @@ e)) : l \in HandlerLeaves, e \in HandlerElements}

\* RootTranslator.__init__ with one of the handler trees
HandlerTranslatorInit ==
    /\ dm \in TranslatorHandlers
    /\ candidate \in HandlerTrees
    /\ running \in Opt(HandlerTrees)
    /\ replace \in BOOLEAN
    /\ pc = "start"
    /\ stack = <<>>
    /\ heap = << <<>> >>
    /\ log = <<>>
    /\ step = Step("", RootPath, <<>>, 0)
    /\ native = <<>>
    /\ config = TRUE
    /\ state = FALSE
    /\ model_filter = [include |-> <<>>, exclude |-> <<>>]
    /\ parsed = None
    /\ lines = <<>>

HandlerInit == HandlerParserInit \/ HandlerTranslatorInit

HandlerNext ==
    \/ ParserNext
    \/ Parser_process_list_raise
    \/ Next

HandlerSpec == HandlerInit /\ [][HandlerNext]_vars

----------------------------------------------------------------------------
(* extract_elements not implemented *)

\* the loop of _process_container stands at a list whose handler exists
\* but does not implement extract_elements
AtListWithoutExtract ==
    /\ InParserContainer
    /\ dm[Child].kind = "list" /\ dm[Child].impl /\ ~dm[Child].extract

\* C22: when the traversal reaches a List whose handler exists but does not
\* implement extract_elements, the next thing that happens is the
\* not-implemented error, which ends the traversal with no result; a run
\* whose handlers of start and element exist, element without
\* extract_elements, never returns a result.
C22_NotImplemented ==
    /\ [](pc = "raised" =>
            /\ parsed = None /\ stack = <<>>
            /\ Last(log).op = "NotImplementedError"
            /\ ~dm[Last(log).node].extract)
    /\ []((dm[ElementPath].impl /\ ~dm[ElementPath].extract) => pc # "parsed")
    /\ [][AtListWithoutExtract => (pc' = "raised" /\ parsed' = None)]_vars

\* the error was raised by the list sub of an element, after the leaves
\* of the element were parsed
C22_Witness ==
    /\ pc = "raised"
    /\ Last(log).node = SubPath
    /\ ElementPath \in DOMAIN Last(log).lists
    /\ \E i \in 1..Len(log) : log[i].op = "leaf" /\ log[i].node = ValuePath

----------------------------------------------------------------------------
(* Schema children without a handler member *)

\* the schema nodes that have an entry in the parse result value of the
\* container or list element node
RECURSIVE OutNodes(_, _)
OutNodes(node, value) ==
    UNION {LET c == dm[node].children[i]
               nm == dm[c].name
           IN  IF nm \notin DOMAIN value THEN {}
               ELSE IF dm[c].kind \in {"leaf", "leaf-list"} THEN {c}
               ELSE IF dm[c].kind = "container" THEN {c} \cup OutNodes(c, value[nm])
               ELSE {c} \cup UNION {OutNodes(c, value[nm][k]) :
                                        k \in 1..Len(value[nm])} :
           i \in 1..Len(dm[node].children)}

\* the nodes without a handler member, and what lies below them
UnhandledNodes == {n \in DOMAIN dm : ~dm[n].impl}
Below(n) == {m \in DOMAIN dm : m = n \/ n \in Ancestors(m)}

\* the loop of _process_container, of either engine, stands at a child
\* that has no handler member
AtUnhandled ==
    /\ pc \in {"parsing", "run"} /\ stack # <<>> /\ Top.fn = "container"
    /\ Top.i <= Len(DataChildren(Top.yy))
    /\ ~dm[Child].impl

----------------------------------------------------------------------------
(* The hooks around a leaf-list *)

\* the engine has just looked at a leaf-list
LeafListVisited == pc \in {"run", "done"} /\ step.fn = "_process_leaf_list"

\* the operations of the events the last step added to the log
StepOps == [k \in 1..step.n |-> log[Len(log) - step.n + k].op]

CountOps(op) == Cardinality({i \in 1..Len(log) : log[i].op = op})

\* C26: a leaf-list that passes the forward-progress check gets
\* pre_process_leaf_list, then its accessor, then post_process_leaf_list,
\* once each and for that leaf-list; one that does not pass gets nothing;
\* post_process_leaf_list has run as often as pre_process_leaf_list.
C26_LeafListHooks ==
    /\ LeafListVisited =>
          IF _obj_forward_progress_leaf(step.path)
          THEN /\ step.n = 3
               /\ StepOps = <<"pre_process_leaf_list", "leaf_list",
                              "post_process_leaf_list">>
               /\ \A k \in 0..2 : log[Len(log) - k].node = step.node
          ELSE step.n = 0
    /\ CountOps("post_process_leaf_list") = CountOps("pre_process_leaf_list")

----------------------------------------------------------------------------
(* Containers and lists the model filter rejects *)

\* the containers and lists whose path the model filter rejects
Rejected ==
    {n \in DOMAIN dm \ {RootPath} :
        /\ dm[n].kind \in {"container", "list"}
        /\ ~check(model_filter, PathText(n))}

\* C24: the parse result holds no entry for a Container or List whose path
\* the model filter rejects.
C24_RejectedAbsent ==
    parsed # None => OutNodes(RootPath, parsed[1]) \cap Rejected = {}

----------------------------------------------------------------------------
(* pre_process and post_process of the Parse Engine *)

\* the nodes whose pre_process is, after the first i events, not yet
\* followed by their post_process, innermost last; <<"unmatched">> once a
\* post_process came that does not close the innermost of them
RECURSIVE OpenVisits(_)
OpenVisits(i) ==
    IF i = 0 THEN <<>>
    ELSE LET open == OpenVisits(i - 1)
             e == log[i]
         IN  IF open = <<"unmatched">> THEN open
             ELSE IF e.op = "pre_process" THEN Append(open, e.node)
             ELSE IF e.op = "post_process"
             THEN IF open # <<>> /\ Last(open) = e.node THEN Front(open)
                  ELSE <<"unmatched">>
             ELSE open

\* the container and list-element visits that have not returned yet
VisitsInProgress ==
    LET frames == SelectSeq(stack, LAMBDA f : f.fn = "container")
    IN  [j \in 1..Len(frames) |-> frames[j].yy.schema]

\* C25: pre_process and post_process bracket every container and
\* list-element visit of the Parse Engine: the visits whose pre_process ran
\* and whose post_process did not are exactly the visits that have not
\* returned yet, so when the parse returns every pre_process has been
\* followed by the post_process of the same handler.
C25_Bracket ==
    pc \in {"parsing", "parsed"} => OpenVisits(Len(log)) = VisitsInProgress

----------------------------------------------------------------------------
(* The hooks around a list of the Translate Engine *)

Unmatched == [op |-> "unmatched", path |-> <<>>]

\* the pre_process_list and pre_process hooks that are, after the first i
\* events, not yet followed by their post_process_list or post_process,
\* innermost last; <<Unmatched>> once a closing hook came that does not close
\* the innermost of them
RECURSIVE OpenHooks(_)
OpenHooks(i) ==
    IF i = 0 THEN <<>>
    ELSE LET open == OpenHooks(i - 1)
             e == log[i]
             closes == IF e.op = "post_process" THEN "pre_process"
                       ELSE "pre_process_list"
         IN  IF open = <<Unmatched>> THEN open
             ELSE IF e.op \in {"pre_process", "pre_process_list"}
             THEN Append(open, [op |-> e.op, path |-> e.path])
             ELSE IF e.op \in {"post_process", "post_process_list"}
             THEN IF open # <<>> /\ Last(open) = [op |-> closes, path |-> e.path]
                  THEN Front(open) ELSE <<Unmatched>>
             ELSE open

\* the containers, list elements and lists being processed, outermost first
InProgress ==
    [j \in 1..Len(stack) |->
        [op |-> IF stack[j].fn = "list" THEN "pre_process_list" ELSE "pre_process",
         path |-> stack[j].yy.path]]

\* the keys of the candidate entries of the list at path
CandidateKeys(list_node, path) ==
    [i \in 1..Len(Entries(InCandidate(path))) |->
        Entries(InCandidate(path))[i][dm[list_node].keys[1]]]

HooksOf(op, path) == {i \in 1..Len(log) : log[i].op = op /\ log[i].path = path}

\* C27: the hooks of a processed list are nested as the processing is:
\* pre_process_list, then for each visited element pre_process, its
\* children and post_process, then post_process_list; pre_process_list sees
\* to_remove already computed; when the list returns both list hooks have
\* run exactly once, whether or not candidate has the list or an element was
\* visited, and the elements were visited in candidate order.
C27_ListHooks ==
    /\ pc \in {"run", "done"} => OpenHooks(Len(log)) = InProgress
    /\ \A i \in 1..Len(log) :
          log[i].op = "pre_process_list" =>
              log[i].to_remove = RunningOnly(log[i].node, log[i].path)
    /\ (pc \in {"run", "done"} /\ step.fn = "_process_list_return") =>
          /\ Last(log).op = "post_process_list" /\ Last(log).path = step.path
          /\ Cardinality(HooksOf("pre_process_list", step.path)) = 1
          /\ Cardinality(HooksOf("post_process_list", step.path)) = 1
          /\ RecursedKeys(step.node, step.path) =
                SelectSeq(CandidateKeys(step.node, step.path),
                          LAMBDA k : k \in Range(RecursedKeys(step.node, step.path)))

\* a list that candidate lacks and running has was processed: the two list
\* hooks ran one after the other, with the running entries in to_remove
C27_Witness ==
    /\ pc \in {"run", "done"} /\ step.fn = "_process_list_return"
    /\ InCandidate(step.path) = None
    /\ Len(log) > 1
    /\ log[Len(log) - 1].op = "pre_process_list"
    /\ Len(Last(log).to_remove) = 2

----------------------------------------------------------------------------
(* A list with two key leaves *)

\* list element { key "name value"; ... }
KeyedModel == [TestModel EXCEPT ![ElementPath].keys = <<"name", "value">>]

\* entries of the list: the two key leaves and, or not, the nested list
KeyedEntries ==
    {Element(k, v, s) : k \in Keys, v \in LeafVals, s \in {None, Some(SubEntries)}}

\* lists of at most n entries, no two with the same values of both keys
KeyedLists(n) ==
    {es \in UNION {[1..m -> KeyedEntries] : m \in 0..n} :
        \A i, j \in 1..Len(es) :
            (es[i].name = es[j].name /\ es[i].value = es[j].value) => i = j}

KeyedInit ==
    /\ dm = KeyedModel
    /\ candidate \in {("start" :> ("element" :> es)) : es \in KeyedLists(MaxElems)}
    /\ running \in {None} \cup {Some(("start" :> ("element" :> es))) : es \in KeyedLists(1)}
    /\ replace \in BOOLEAN
    /\ pc = "start"
    /\ stack = <<>>
    /\ heap = << <<>> >>
    /\ log = <<>>
    /\ step = Step("", RootPath, <<>>, 0)
    /\ native = <<>>
    /\ config = TRUE
    /\ state = FALSE
    /\ model_filter = [include |-> <<>>, exclude |-> <<>>]
    /\ parsed = None
    /\ lines = <<>>

KeyedSpec == KeyedInit /\ [][Next]_vars

\* the engine has just looked at an entry of a list: the frame of the list
\* and the entry
ElementLooked == pc = "run" /\ step.fn = "_process_list_element"
ListFrame == stack[Len(stack) - step.n]
LookedAt == ListFrame.elements[ListFrame.i - 1]

\* the running entries of the list that have the full key of the entry
Twins(list_node, path, entry) ==
    SelectSeq(Entries(InRunning(path)),
              LAMBDA r : FullKey(list_node, r) = FullKey(list_node, entry))

\* C28: list entries of candidate and running are matched by the values of
\* all the key leaves of the list: to_remove holds the running entries
\* whose full key no candidate entry has; when merging an entry is passed
\* over iff running has an equal entry of the same full key; and the path
\* handed to the translator of an entry leads, in candidate, to that entry.
C28_FullKey ==
    /\ \A i \in 1..Len(log) :
          log[i].op = "pre_process_list" =>
              log[i].to_remove = RunningOnly(log[i].node, log[i].path)
    /\ ElementLooked =>
          /\ (step.n = 0) <=>
                /\ ~replace
                /\ \E k \in 1..Len(Twins(step.node, ListFrame.yy.path, LookedAt)) :
                       Twins(step.node, ListFrame.yy.path, LookedAt)[k] = LookedAt
          /\ step.n = 1 => Goto(candidate, Top.yy.path) = Some(LookedAt)

----------------------------------------------------------------------------
(* Merge and replace without a running tree *)

\* an invocation of a hook or accessor that sees nothing to remove
Invocation(op, node, path, arg) ==
    [op |-> op, node |-> node, path |-> path, arg |-> arg,
     to_remove |-> <<>>, values_to_remove |-> <<>>]

\* the invocations a full traversal of the candidate value of node at path
\* makes: every node that is present, with its value, in schema order, the
\* entries of a list in their order
RECURSIVE ExpectedVisit(_, _, _), ExpectedChildren(_, _, _, _), ExpectedEntries(_, _, _, _)
ExpectedVisit(node, path, value) ==
    <<Invocation("pre_process", node, path, None)>>
    \o ExpectedChildren(node, path, value, 1)
    \o <<Invocation("post_process", node, path, None)>>

ExpectedChildren(node, path, value, i) ==
    IF i > Len(dm[node].children) THEN <<>>
    ELSE LET c == dm[node].children[i]
             nm == dm[c].name
             p == Append(path, MemberName(nm))
             calls ==
                 IF nm \notin DOMAIN value THEN <<>>
                 ELSE CASE dm[c].kind = "leaf" ->
                             <<Invocation("leaf", c, p, Some(value[nm]))>>
                        [] dm[c].kind = "leaf-list" ->
                             <<Invocation("pre_process_leaf_list", c, p, None),
                               Invocation("leaf_list", c, p, Some(value[nm])),
                               Invocation("post_process_leaf_list", c, p, None)>>
                        [] dm[c].kind = "container" ->
                             ExpectedVisit(c, p, value[nm])
                        [] dm[c].kind = "list" ->
                             <<Invocation("pre_process_list", c, p, None)>>
                             \o ExpectedEntries(c, p, value[nm], 1)
                             \o <<Invocation("post_process_list", c, p, None)>>
         IN  calls \o ExpectedChildren(node, path, value, i + 1)

ExpectedEntries(node, path, entries, k) ==
    IF k > Len(entries) THEN <<>>
    ELSE ExpectedVisit(node,
                       Append(path, EntryKeys(dm[node].keys[1],
                                              entries[k][dm[node].keys[1]])),
                       entries[k])
         \o ExpectedEntries(node, path, entries, k + 1)

\* what the log tells of the invocations made so far
Invocations ==
    [i \in 1..Len(log) |->
        [op |-> log[i].op, node |-> log[i].node, path |-> log[i].path,
         arg |-> log[i].arg, to_remove |-> log[i].to_remove,
         values_to_remove |-> log[i].values_to_remove]]

\* C30: without a running tree the invocations made so far are, in merge
\* mode and in replace mode alike, the beginning of the full traversal of
\* candidate, and the whole of it when process returns: every node present
\* in candidate is visited with its candidate value, to_remove and
\* values_to_remove are empty throughout.
C30_SameTraversal ==
    (running = None /\ pc \in {"run", "done"}) =>
        LET expected == ExpectedVisit(RootPath, <<>>, candidate)
        IN  /\ Len(log) <= Len(expected)
            /\ Invocations = SubSeq(expected, 1, Len(log))
            /\ pc = "done" => Len(log) = Len(expected)

\* merging without a running tree has visited two entries of a list and
\* the entries of a nested list
C30_Witness ==
    /\ running = None /\ ~replace /\ pc = "done"
    /\ \E i \in 1..Len(log) : log[i].op = "leaf" /\ log[i].node = IdPath
    /\ \E i \in 1..Len(log) : log[i].op = "post_process_list" /\ log[i].node = SubPath
    /\ Len(Recursed(ElementPath, <<MemberName("start"), MemberName("element")>>)) = 2

----------------------------------------------------------------------------
(* GroupNode children (choice and case) *)

\* a GroupNode has no data path of its own; the data path of its children
\* goes on from the node the group is in, which is what parent stands for
GroupPath == "/start#grp"
BoxPath == "/start/box"
NotePath == "/start/box/note"
LabelPath == "/start/label"

\* container start { leaf descr;
\*   choice grp { container box { leaf note; } leaf label; }
\*   leaf-list members; leaf-list tags; list element { ... } }
GroupModel ==
    (GroupPath :> SchemaNode("grp", "group", StartPath, <<BoxPath, LabelPath>>, <<>>, TRUE))
 @@ (BoxPath :> SchemaNode("box", "container", StartPath, <<NotePath>>, <<>>, TRUE))
 @@ (NotePath :> SchemaNode("note", "leaf", BoxPath, <<>>, <<>>, TRUE))
 @@ (LabelPath :> SchemaNode("label", "leaf", StartPath, <<>>, <<>>, TRUE))
 @@ [ParserModel EXCEPT ![StartPath].children =
        <<DescrPath, GroupPath, MembersPath, TagsPath, ElementPath>>]

\* the handler trees: with and without an accessor label, without a class box
GroupHandlers ==
    {GroupModel, WithoutHandler(GroupModel, LabelPath),
     WithoutHandler(GroupModel, BoxPath)}

\* the loop "for c in children" over the children of a GroupNode, run by
\* the parser or translator self of the frame below
GroupFrame(self, children) ==
    [fn |-> "group", yy |-> self, i |-> 1, elements |-> children, result |-> <<>>,
     keys |-> <<>>, old_keys |-> 0, old_native |-> <<>>, running_keys |-> 0]

InGroup(at) ==
    /\ pc = at /\ stack # <<>> /\ Top.fn = "group"
    /\ Top.i <= Len(Top.elements)
GroupChild == Top.elements[Top.i]

\* Parser._process_container at a GroupNode child: children = child.children
Parser_process_group ==
    /\ InParserContainer
    /\ dm[Child].kind = "group"
    /\ stack' = Append(stack, GroupFrame(Top.yy, dm[Child].children))
    /\ step' = ParserStep("_process_group", Child)
    /\ UNCHANGED <<lines, tvars, pvars, dm, pc, heap, log>>

\* one child of the group: _get_child looks the member up and, when there is
\* one, _process_container of it is called whatever the kind of the child
\* (the schemas drawn have containers and leaves in a group)
Parser_process_group_child ==
    /\ InGroup("parsing")
    /\ dm[GroupChild].impl => dm[GroupChild].kind = "container"
    /\ LET r == Parser_process_container_enter(Parser_get_child(Top.yy, GroupChild),
                                               heap, log, stack, <<>>)
       IN  IF ~dm[GroupChild].impl
           THEN stack' = Advance /\ UNCHANGED <<heap, log>>
           ELSE /\ heap' = r.heap
                /\ log' = r.log
                /\ stack' = IF r.entered THEN Append(stack, r.frame) ELSE Advance
    /\ step' = ParserStep("_process_group_child", GroupChild)
    /\ UNCHANGED <<lines, tvars, pvars, dm, pc>>

\* a leaf or leaf-list child of the group that has an accessor: the member
\* _get_child finds is a method, issubclass(c_type, Parser) raises TypeError
\* and nothing catches it
Parser_process_group_raise ==
    /\ InGroup("parsing")
    /\ dm[GroupChild].impl /\ dm[GroupChild].kind \in {"leaf", "leaf-list"}
    /\ log' = Append(log, ParserEvent("TypeError", GroupChild, Top.yy, heap, stack, None))
    /\ stack' = <<>>
    /\ pc' = "raised"
    /\ step' = ParserStep("_process_group_child", GroupChild)
    /\ UNCHANGED <<lines, tvars, pvars, dm, heap>>

\* the end of the loop over the children of the group
Parser_process_group_return ==
    /\ pc = "parsing" /\ stack # <<>> /\ Top.fn = "group"
    /\ Top.i > Len(Top.elements)
    /\ stack' = [Front(stack) EXCEPT ![Len(stack) - 1].i = @ + 1]
    /\ step' = ParserStep("_process_group_return", step.node)
    /\ UNCHANGED <<lines, tvars, pvars, dm, pc, heap, log>>

\* Translator._process_container at a GroupNode child
_process_group ==
    /\ InContainer
    /\ Top.i <= Len(DataChildren(Top.yy))
    /\ dm[Child].kind = "group"
    /\ stack' = Append(Advance, GroupFrame(Top.yy, dm[Child].children))
    /\ step' = Step("_process_group", Child, Top.yy.path, 0)
    /\ UNCHANGED <<lines, pvars, dm, candidate, running, replace, pc, heap, log>>

\* _process_container_node(c) for a child c of the group: a container or
\* list that can make progress and has a member is entered; a leaf or
\* leaf-list is entered by no branch, and passed over when it cannot make
\* progress or has no member
_process_group_node ==
    /\ InGroup("run")
    /\ LET node_path == _append_node_to_path(Top.yy.path, GroupChild)
           attr == _get_child(Top.yy, GroupChild)
           r == IF dm[GroupChild].kind = "list"
                THEN _process_list_enter(attr, heap, log)
                ELSE _process_container_enter(attr, heap, log)
           reached == _obj_forward_progress_container(node_path) /\ dm[GroupChild].impl
       IN  /\ reached => dm[GroupChild].kind \in {"container", "list"}
           /\ IF reached
              THEN /\ stack' = Append(Advance, r.frame)
                   /\ heap' = r.heap
                   /\ log' = r.log
                   /\ step' = Step("_process_group_node", GroupChild, node_path, 1)
              ELSE /\ stack' = Advance
                   /\ step' = Step("_process_group_node", GroupChild, node_path, 0)
                   /\ UNCHANGED <<heap, log>>
    /\ UNCHANGED <<lines, pvars, dm, candidate, running, replace, pc>>

\* a leaf or leaf-list child of the group that can make progress and has an
\* accessor: issubclass(c_type, Translator) in _get_child raises TypeError
_process_group_raise ==
    /\ InGroup("run")
    /\ LET node_path == _append_node_to_path(Top.yy.path, GroupChild)
       IN  /\ _obj_forward_progress_container(node_path)
           /\ dm[GroupChild].impl /\ dm[GroupChild].kind \in {"leaf", "leaf-list"}
           /\ log' = Append(log, Event("TypeError", GroupChild, node_path, Top.yy,
                                       heap, None))
           /\ step' = Step("_process_group_node", GroupChild, node_path, 1)
    /\ stack' = <<>>
    /\ pc' = "raised"
    /\ UNCHANGED <<lines, pvars, dm, candidate, running, replace, heap>>

\* the end of the loop over the children of the group
_process_group_return ==
    /\ pc = "run" /\ stack # <<>> /\ Top.fn = "group"
    /\ Top.i > Len(Top.elements)
    /\ stack' = Front(stack)
    /\ step' = Step("_process_group_return", step.node, Top.yy.path, 0)
    /\ UNCHANGED <<lines, pvars, dm, candidate, running, replace, pc, heap, log>>

\* native data and canonical trees with and without the members of the group
GroupDocs ==
    {("start" :> (d @@ b @@ l @@ e)) :
        d \in {("descr" :> "a")},
        b \in {<<>>, ("box" :> ("note" :> "a")), ("box" :> ("note" :> "b"))},
        l \in {<<>>, ("label" :> "a")},
        e \in {<<>>, ("element" :> <<Element("1", "a", None)>>)}}

GroupParserInit ==
    /\ dm \in GroupHandlers
    /\ native \in GroupDocs
    /\ config = TRUE
    /\ state = FALSE
    /\ model_filter \in {ModelFilter(<< <<>> >>, e) : e \in {<<>>, << <<"start", "box">> >>}}
    /\ lines = <<>>
    /\ parsed = None
    /\ candidate = <<>> /\ running = None /\ replace = FALSE
    /\ pc = "parse"
    /\ stack = <<>>
    /\ heap = << <<>> >>
    /\ log = <<>>
    /\ step = ParserStep("", RootPath)

GroupTranslatorInit ==
    /\ dm \in GroupHandlers
    /\ candidate \in GroupDocs
    /\ running \in Opt(GroupDocs)
    /\ replace \in BOOLEAN
    /\ pc = "start"
    /\ stack = <<>>
    /\ heap = << <<>> >>
    /\ log = <<>>
    /\ step = Step("", RootPath, <<>>, 0)
    /\ native = <<>>
    /\ config = TRUE
    /\ state = FALSE
    /\ model_filter = [include |-> <<>>, exclude |-> <<>>]
    /\ parsed = None
    /\ lines = <<>>

GroupInit == GroupParserInit \/ GroupTranslatorInit

GroupNext ==
    \/ ParserNext
    \/ Parser_process_group
    \/ Parser_process_group_child
    \/ Parser_process_group_raise
    \/ Parser_process_group_return
    \/ Next
    \/ _process_group
    \/ _process_group_node
    \/ _process_group_raise
    \/ _process_group_return

GroupSpec == GroupInit /\ [][GroupNext]_vars


\* the names of the GroupNodes of the schema
GroupNames == {dm[n].name : n \in {g \in DOMAIN dm : dm[g].kind = "group"}}

\* no step of the route names a GroupNode
NoGroupStep(path) ==
    \A k \in 1..Len(path) : "m" \in DOMAIN path[k] => path[k].m \notin GroupNames

\* the parser or translator that runs the loop over the group, the
\* children it was given by name, and the child the loop stands at
AtGroupChild(at, kinds) == InGroup(at) /\ dm[GroupChild].kind \in kinds

====
